---- MODULE Spec2Model ----
(***************************************************************************)
(* State-machine model of the drilling-run consolidation pass              *)
(* (entry-exit-count-processing/scripts/merging.py, process_drilling_data) *)
(* and of the confidence scoring stage                                     *)
(* (stratigraphic-classification/scripts/analyze_confidence.py,            *)
(* WellCategoryAnalyzer).                                                  *)
(*                                                                         *)
(* Numbers: footage and net drilling time are whole depth units; every     *)
(* value the code passes through round(x, 6) and that can be fractional    *)
(* (hit-rate, mud density, confidence) is kept in millionths, so 1.0 is    *)
(* Scale and round(a / b, 6) is Round6Div(a, b).                           *)
(*                                                                         *)
(* Further sections model the depth mapping stage                          *)
(* (process_drilling_data.py, StratigraphicClassifier; SpecMap), the       *)
(* dictionary validator (validate_dictionary.py, DictionaryValidator;      *)
(* SpecVal) and the pipeline (complete_analysis.py,                        *)
(* StratigraphicAnalysisPipeline; SpecPipe).  Every specification starts   *)
(* its own stage and leaves the variables of the other stages idle, except *)
(* SpecGate, which starts the validator and the mapping stage on the same  *)
(* three files.                                                            *)
(***************************************************************************)
EXTENDS Integers, Sequences, FiniteSets, TLC

\* ------------------------------------------------------------------ bounds
\* rows of a general drilling table
MaxRows == 3
\* entry counts of a general drilling table are 0..MaxEntry
MaxEntry == 2
\* footages of a general drilling table are 0..MaxFootage
MaxFootage == 1
\* rows of a table made of consecutive consistent runs 1,2,...
MaxRun == 6
\* footages of the rows of such a table are 1..MaxRunFootage
MaxRunFootage == 2
\* rows of the formation reference table read by the confidence stage
MaxRefRows == 2
\* rows of the processed well table read by the confidence stage
MaxWellRows == 2
\* depths of the confidence stage's inputs are 0..MaxDepth
MaxDepth == 3
\* rows of a table whose mechanical rates may be null or whose footage column
\* holds a cell that is no number
MaxAggRows == 3

\* ------------------------------------------------------------- arithmetic
\* round(x, 6): six decimals, so one unit is a million millionths
Scale == 1000000

\* round-half-even of a / b for a >= 0, b > 0 (Python's round on the quotient)
RoundHalfEven(a, b) ==
    LET q == a \div b
        r == a % b
    IN  IF 2 * r < b THEN q
        ELSE IF 2 * r > b THEN q + 1
        ELSE IF q % 2 = 0 THEN q ELSE q + 1

\* round(a / b, 6) in millionths
Round6Div(a, b) == RoundHalfEven(a * Scale, b)

RECURSIVE SumOver(_, _, _)
\* sum(f[k] for k in range(lo, hi + 1))
SumOver(f, lo, hi) == IF lo > hi THEN 0 ELSE f[lo] + SumOver(f, lo + 1, hi)

\* ---------------------------------------------------------------- state
VARIABLES
    df,               \* the table as read, with hit-rate 1.0 on every row
    result_df,        \* the working copy the pass rewrites and extends
    i,                \* scan cursor (0-based, as in the code)
    rows_to_modify,   \* scheduled overwrites, in scheduling order
    new_rows_to_add,  \* scheduled insertions (anchor position, synthesized row)
    merged,           \* history: the (sequence_start, sequence_end) of every merge
    warnings,         \* history: the ranges for which the warning was printed
    mi,               \* index of the next overwrite to apply
    sorted_new_rows,  \* insertions still to apply, descending anchor order
    pc,               \* "scan", "modify", "insert", "done", "raised" ("idle")
    formation_df,     \* confidence stage: the formation reference table
    categories,       \* self.categories, <<>> until loaded
    well_data_df,     \* the processed well table (id, adjusted start and end)
    output_rows,      \* the (id, category, confidence) rows emitted so far
    r,                \* number of well rows already scored
    cpc,              \* "load", "score", "done" ("idle": not run)
    stratigraphic_dict, \* mapping stage: the dictionary, formation -> entry
    formation_depths, \* self.formation_depths, in table order
    input_csv,        \* the drilling rows the mapping stage reads
    processed_rows,   \* the rows built so far
    output_csv,       \* the file the mapping stage writes (NoFile: not written)
    row_no,           \* number of drilling rows already read
    mpc,              \* "rows", "done", "failed" ("idle": not run)
    json_data,        \* validator: the dictionary, formation -> entry
    datatest_formations,      \* the formation names the drilling table references
    stratigraphic_formations, \* the formation names of the reference table
    errors,           \* the error list of validate_dictionary, up to order
    vpc,              \* "start", "parents", "ranges", "returned", "raised"
    run_input,        \* pipeline: what the run is given (see PipelineInputs)
    files,            \* the files written by the run that exist
    mapped_count,     \* records the mapping stage has processed
    scored_count,     \* records the confidence stage has scored
    stage_log,        \* the stage events of the run, in order
    ppc               \* the statement run_complete_analysis is at

mergeVars == <<df, result_df, i, rows_to_modify, new_rows_to_add, merged,
               warnings, mi, sorted_new_rows, pc>>
confVars == <<formation_df, categories, well_data_df, output_rows, r, cpc>>
mapVars == <<stratigraphic_dict, formation_depths, input_csv, processed_rows,
             output_csv, row_no, mpc>>
valVars == <<json_data, datatest_formations, stratigraphic_formations, errors,
             vpc>>
pipeVars == <<run_input, files, mapped_count, scored_count, stage_log, ppc>>
stageVars == <<mapVars, valVars, pipeVars>>
vars == <<mergeVars, confVars, stageVars>>

\* a file that has not been written
NoFile == [written |-> FALSE, rows |-> <<>>]

\* the mapping stage has not been started
MapIdle ==
    /\ stratigraphic_dict = <<>>
    /\ formation_depths = <<>>
    /\ input_csv = <<>>
    /\ processed_rows = <<>>
    /\ output_csv = NoFile
    /\ row_no = 0
    /\ mpc = "idle"

\* validate_dictionary has not been called
ValIdle ==
    /\ json_data = <<>>
    /\ datatest_formations = {}
    /\ stratigraphic_formations = {}
    /\ errors = {}
    /\ vpc = "idle"

\* run_complete_analysis has not been called
PipeIdle ==
    /\ run_input = <<>>
    /\ files = {}
    /\ mapped_count = 0
    /\ scored_count = 0
    /\ stage_log = <<>>
    /\ ppc = "idle"

\* ---------------------------------------------------------------- inputs
\* (bit type, manufacturer) values
BitA == [type |-> "T1", maker |-> "M1"]
BitTypeDiffers == [type |-> "T2", maker |-> "M1"]
BitMakerDiffers == [type |-> "T1", maker |-> "M2"]

\* bit columns of n rows: all rows alike except at most one deviating row
BitPatterns(n) ==
    {[k \in 1..n |-> BitA]} \cup
    {[k \in 1..n |-> IF k = d THEN b ELSE BitA] :
        d \in 1..n, b \in {BitTypeDiffers, BitMakerDiffers}}

\* depth continuity of n rows: gap[k] is the gap between end depth of row k and
\* start depth of row k+1; at most one pair is discontinuous
GapPatterns(n) ==
    {[k \in 1..n |-> 0]} \cup
    {[k \in 1..n |-> IF k = d THEN 5 ELSE 0] : d \in 1..(n - 1)}

\* footage columns of n rows with values lo..hi: all rows alike except at most
\* one deviating row
FootPatterns(n, lo, hi) ==
    {[k \in 1..n |-> IF k = d THEN g ELSE f] :
        d \in 1..n, f \in lo..hi, g \in lo..hi}

RECURSIVE StartDepthOf(_, _)
\* start depth of row k: every row drills 10 units below its start
StartDepthOf(gap, k) ==
    IF k = 1 THEN 1000 ELSE StartDepthOf(gap, k - 1) + 10 + gap[k - 1]

\* the eight A/B sensor columns
SensorColumns ==
    <<"drill_press_a", "drill_press_b", "rpm_a", "rpm_b", "flow_a", "flow_b",
      "pump_press_a", "pump_press_b">>

\* a mechanical rate: a number of millionths, or NaN (an empty cell)
Speed(v) == [null |-> FALSE, v |-> v]
NullSpeed == [null |-> TRUE, v |-> 0]

\* the table read from the CSV; the hit-rate column is added with 1.0
MakeTable(n, ent, foot, bits, gap) ==
    [k \in 1..n |->
        [xuhao    |-> [syn |-> FALSE, n |-> k],
         entry    |-> ent[k],
         start    |-> StartDepthOf(gap, k),
         end      |-> StartDepthOf(gap, k) + 10,
         footage  |-> foot[k],
         time     |-> k,
         density  |-> k * Scale,
         speed    |-> Speed((n + 1 - k) * Scale),
         sensor   |-> [c \in 1..Len(SensorColumns) |-> (k + c) * Scale],
         malformed |-> FALSE,
         type     |-> bits[k].type,
         maker    |-> bits[k].maker,
         sform    |-> <<"S", k>>,
         eform    |-> <<"E", k>>,
         hit      |-> Scale]]

\* a general table of up to MaxRows rows
GeneralInput(t) ==
    \E n \in 1..MaxRows :
        \E ent \in [1..n -> 0..MaxEntry], foot \in FootPatterns(n, 0, MaxFootage),
           bits \in BitPatterns(n), gap \in GapPatterns(n) :
            t = MakeTable(n, ent, foot, bits, gap)

RECURSIVE RestartEntry(_, _)
\* entry count of row k when the count restarts at 1 on the rows marked in restart
RestartEntry(restart, k) ==
    IF k = 1 \/ restart[k] THEN 1 ELSE RestartEntry(restart, k - 1) + 1

\* a table of one bit, depth-continuous throughout, whose entry counts are
\* consecutive runs 1,2,.. (e.g. 1,2,3,1,2 or 1,1,2), with positive footages
RunInput(t) ==
    \E n \in 2..MaxRun :
        \E restart \in [1..n -> BOOLEAN], foot \in FootPatterns(n, 1, MaxRunFootage) :
            /\ ~restart[1]
            /\ t = MakeTable(n, [k \in 1..n |-> RestartEntry(restart, k)], foot,
                             [k \in 1..n |-> BitA], [k \in 1..n |-> 0])

\* a table of one bit and one run 1,2,.., depth-continuous, whose mechanical
\* rates may be null
AggregateInput(t) ==
    \E n \in 2..MaxAggRows :
        \E foot \in FootPatterns(n, 0, MaxFootage), nulls \in [1..n -> BOOLEAN] :
            t = [k \in 1..n |->
                    [MakeTable(n, [j \in 1..n |-> j], foot,
                               [j \in 1..n |-> BitA], [j \in 1..n |-> 0])[k]
                        EXCEPT !.speed = IF nulls[k] THEN NullSpeed ELSE @]]

\* a table of one run 1,2,.. with unit footages, in which at most one row
\* has another bit and at most one pair of rows is not depth-continuous
BitRunInput(t) ==
    \E n \in 2..MaxAggRows :
        \E bits \in BitPatterns(n), gap \in GapPatterns(n) :
            t = MakeTable(n, [j \in 1..n |-> j], [j \in 1..n |-> 1], bits, gap)

\* a table of one bit, depth-continuous, of which one footage cell is no
\* number
MalformedInput(t) ==
    \E n \in 1..MaxAggRows :
        \E ent \in [1..n -> 1..MaxEntry], d \in 1..n :
            t = [k \in 1..n |->
                    [MakeTable(n, ent, [j \in 1..n |-> 1],
                               [j \in 1..n |-> BitA], [j \in 1..n |-> 0])[k]
                        EXCEPT !.malformed = (k = d)]]

\* ----------------------------------------------------------- consolidation
\* result_df.iloc[k]
Row(k) == result_df[k + 1]

NRows == Len(result_df)

RECURSIVE ForwardEnd(_)
\* lines 47-54: the forward search from position j - 1
ForwardEnd(j) ==
    IF j < NRows /\ Row(j).entry = Row(j - 1).entry + 1
    THEN ForwardEnd(j + 1) ELSE j - 1

RECURSIVE BackwardStartEqual(_)
\* the backward search also taking a row with the same entry count
BackwardStartEqual(k) ==
    IF k >= 0 /\ (\/ Row(k).entry = Row(k + 1).entry - 1
                  \/ Row(k).entry = Row(k + 1).entry)
    THEN BackwardStartEqual(k - 1) ELSE k + 1

RECURSIVE BackwardStart(_)
\* lines 57-64: the backward search from position k + 1
BackwardStart(k) ==
    IF k >= 0 /\ Row(k).entry = Row(k + 1).entry - 1
    THEN BackwardStart(k - 1) ELSE k + 1

sequence_end == ForwardEnd(i + 1)
sequence_start == BackwardStart(i - 1)

consistent_drill_info(s, e) ==
    \A k \in s..e : Row(k).type = Row(s).type /\ Row(k).maker = Row(s).maker

depth_continuous(s, e) ==
    \A k \in s..(e - 1) : Row(k).end = Row(k + 1).start

\* line 100: the warning is printed
WarningCase(s, e) ==
    /\ ~consistent_drill_info(s, e)
    /\ depth_continuous(s, e)
    /\ Row(s).maker = Row(s + 1).maker

total_depth(s, e) == SumOver([k \in s..e |-> Row(k).footage], s, e)
total_drill_time(s, e) == SumOver([k \in s..e |-> Row(k).time], s, e)

\* lines 124-135 and 219: footage-weighted mud density, rounded to 6 decimals
weighted_density(s, e) ==
    LET total_weight == total_depth(s, e)
    IN  IF total_weight > 0
        THEN RoundHalfEven(
                SumOver([k \in s..e |-> Row(k).density * Row(k).footage], s, e),
                total_weight)
        ELSE Row(e).density

\* lines 169-208: a footage-weighted sensor column, rounded to 6 decimals
weighted_sensor(s, e, c) ==
    LET total_weight == total_depth(s, e)
    IN  IF total_weight > 0
        THEN RoundHalfEven(
                SumOver([k \in s..e |-> Row(k).sensor[c] * Row(k).footage],
                        s, e),
                total_weight)
        ELSE Row(e).sensor[c]

\* the footage of row k as weight of the mechanical rate, 0 for a null rate
SpeedWeight(k) == IF Row(k).speed.null THEN 0 ELSE Row(k).footage

\* the mechanical rate averaged with the footage of every row as weight total
weighted_mechanical_speed_all_rows(s, e) ==
    LET total_weight_for_speed == total_depth(s, e)
    IN  IF total_weight_for_speed > 0
        THEN Speed(RoundHalfEven(
                SumOver([k \in s..e |-> Row(k).speed.v * SpeedWeight(k)], s, e),
                total_weight_for_speed))
        ELSE IF Row(e).speed.null THEN Speed(0)
        ELSE Row(e).speed

\* lines 149-167 and 220: the mechanical rate weighted by the footage of the
\* rows whose rate is not null, rounded to 6 decimals
weighted_mechanical_speed(s, e) ==
    LET total_weight_for_speed ==
            SumOver([k \in s..e |-> SpeedWeight(k)], s, e)
    IN  IF total_weight_for_speed > 0
        THEN Speed(RoundHalfEven(
                SumOver([k \in s..e |-> Row(k).speed.v * SpeedWeight(k)], s, e),
                total_weight_for_speed))
        ELSE IF Row(e).speed.null THEN Speed(0)
        ELSE Row(e).speed

\* the quotient cut off after six decimals instead of rounded
hit_rate_truncated(original_depth, total) ==
    IF total # 0 THEN (original_depth * Scale) \div total ELSE Scale

\* the quotient rounded to 5 decimals
hit_rate_coarse(original_depth, total) ==
    IF total # 0 THEN 10 * RoundHalfEven(original_depth * (Scale \div 10), total)
    ELSE Scale

\* lines 241-246
hit_rate(original_depth, total) ==
    IF total # 0 THEN Round6Div(original_depth, total) ELSE Scale

\* the start depth of the template row left in place
SynthRowKeepsStart(s, e) ==
    [Row(e) EXCEPT
        !.xuhao = [syn |-> TRUE, n |-> Len(new_rows_to_add) + 1],
        !.footage = total_depth(s, e),
        !.time = total_drill_time(s, e),
        !.density = weighted_density(s, e),
        !.speed = weighted_mechanical_speed(s, e),
        !.sensor = [c \in 1..Len(SensorColumns) |-> weighted_sensor(s, e, c)],
        !.sform = Row(s).sform,
        !.hit = Scale]

\* lines 210-231: the synthesized row
SynthRow(s, e) ==
    [Row(e) EXCEPT
        !.xuhao = [syn |-> TRUE, n |-> Len(new_rows_to_add) + 1],
        !.start = Row(s).start,
        !.footage = total_depth(s, e),
        !.time = total_drill_time(s, e),
        !.density = weighted_density(s, e),
        !.speed = weighted_mechanical_speed(s, e),
        !.sensor = [c \in 1..Len(SensorColumns) |-> weighted_sensor(s, e, c)],
        !.sform = Row(s).sform,
        !.hit = Scale]

RECURSIVE RangeMods(_, _, _)
\* lines 237-247: two scheduled overwrites per row of the range
RangeMods(k, e, total) ==
    IF k > e THEN <<>>
    ELSE <<[kind |-> "depth", idx |-> k, val |-> total],
           [kind |-> "hit_rate", idx |-> k,
            val |-> hit_rate(Row(k).footage, total)]>>
         \o RangeMods(k + 1, e, total)

\* line 33
PairCase ==
    /\ Row(i).entry = 1
    /\ i + 1 < NRows
    /\ Row(i + 1).entry = 1

\* lines 33-41
ScanPair ==
    /\ pc = "scan" /\ i < NRows
    /\ PairCase
    /\ rows_to_modify' = rows_to_modify \o
            <<[kind |-> "plain", idx |-> i, val |-> Scale],
              [kind |-> "plain", idx |-> i + 1, val |-> Scale]>>
    /\ i' = i + 2
    /\ UNCHANGED <<df, result_df, new_rows_to_add, merged, warnings, mi,
                   sorted_new_rows, pc, confVars, stageVars>>

\* pd.read_csv keeps a column holding a cell that is no number as strings
FootageColumnIsText == \E k \in 1..NRows : result_df[k].malformed

\* lines 44-250, the branch of line 113 taken
ScanMerge ==
    /\ pc = "scan" /\ i < NRows
    /\ ~PairCase
    /\ Row(i).entry >= 1
    /\ sequence_end > sequence_start
    /\ consistent_drill_info(sequence_start, sequence_end)
    /\ depth_continuous(sequence_start, sequence_end)
    /\ ~FootageColumnIsText
    /\ new_rows_to_add' = Append(new_rows_to_add,
            [pos |-> sequence_end, row |-> SynthRow(sequence_start, sequence_end)])
    /\ rows_to_modify' = rows_to_modify \o
            RangeMods(sequence_start, sequence_end,
                      total_depth(sequence_start, sequence_end))
    /\ merged' = Append(merged, <<sequence_start, sequence_end>>)
    /\ i' = sequence_end + 1
    /\ UNCHANGED <<df, result_df, warnings, mi, sorted_new_rows, pc, confVars, stageVars>>

\* line 116 in the branch of line 113: sum() over footage strings raises
\* TypeError, which nothing catches
ScanMergeRaises ==
    /\ pc = "scan" /\ i < NRows
    /\ ~PairCase
    /\ Row(i).entry >= 1
    /\ sequence_end > sequence_start
    /\ consistent_drill_info(sequence_start, sequence_end)
    /\ depth_continuous(sequence_start, sequence_end)
    /\ FootageColumnIsText
    /\ pc' = "raised"
    /\ UNCHANGED <<df, result_df, i, rows_to_modify, new_rows_to_add, merged,
                   warnings, mi, sorted_new_rows, confVars, stageVars>>

\* lines 44-250, the branch of line 113 not taken (preceded by a variant
\* that sets the cursor back to the start of the range)
ScanRejectRewinds ==
    /\ pc = "scan" /\ i < NRows
    /\ ~PairCase
    /\ Row(i).entry >= 1
    /\ sequence_end > sequence_start
    /\ ~(/\ consistent_drill_info(sequence_start, sequence_end)
         /\ depth_continuous(sequence_start, sequence_end))
    /\ warnings' = IF WarningCase(sequence_start, sequence_end)
                   THEN Append(warnings, <<sequence_start, sequence_end>>)
                   ELSE warnings
    /\ i' = sequence_start
    /\ UNCHANGED <<df, result_df, rows_to_modify, new_rows_to_add, merged, mi,
                   sorted_new_rows, pc, confVars, stageVars>>
ScanReject ==
    /\ pc = "scan" /\ i < NRows
    /\ ~PairCase
    /\ Row(i).entry >= 1
    /\ sequence_end > sequence_start
    /\ ~(/\ consistent_drill_info(sequence_start, sequence_end)
         /\ depth_continuous(sequence_start, sequence_end))
    /\ warnings' = IF WarningCase(sequence_start, sequence_end)
                   THEN Append(warnings, <<sequence_start, sequence_end>>)
                   ELSE warnings
    /\ i' = sequence_end + 1
    /\ UNCHANGED <<df, result_df, rows_to_modify, new_rows_to_add, merged, mi,
                   sorted_new_rows, pc, confVars, stageVars>>

\* lines 252-255
ScanSingle ==
    /\ pc = "scan" /\ i < NRows
    /\ ~PairCase
    /\ Row(i).entry >= 1
    /\ sequence_end = sequence_start
    /\ i' = i + 1
    /\ UNCHANGED <<df, result_df, rows_to_modify, new_rows_to_add, merged,
                   warnings, mi, sorted_new_rows, pc, confVars, stageVars>>

\* lines 256-259
ScanSkip ==
    /\ pc = "scan" /\ i < NRows
    /\ ~PairCase
    /\ Row(i).entry < 1
    /\ i' = i + 1
    /\ UNCHANGED <<df, result_df, rows_to_modify, new_rows_to_add, merged,
                   warnings, mi, sorted_new_rows, pc, confVars, stageVars>>

\* line 28: the loop ends
ScanEnd ==
    /\ pc = "scan" /\ i >= NRows
    /\ pc' = "modify"
    /\ UNCHANGED <<df, result_df, i, rows_to_modify, new_rows_to_add, merged,
                   warnings, mi, sorted_new_rows, confVars, stageVars>>

\* lines 267-281: one scheduled overwrite
ApplyMod(t, mod) ==
    [t EXCEPT ![mod.idx + 1] =
        IF mod.kind = "depth" THEN [@ EXCEPT !.footage = mod.val]
        ELSE [@ EXCEPT !.hit = mod.val]]

\* the scheduled overwrites applied from the last to the first
ModifyStepReversed ==
    /\ pc = "modify" /\ mi < Len(rows_to_modify)
    /\ result_df' = ApplyMod(result_df, rows_to_modify[Len(rows_to_modify) - mi])
    /\ mi' = mi + 1
    /\ UNCHANGED <<df, i, rows_to_modify, new_rows_to_add, merged, warnings,
                   sorted_new_rows, pc, confVars, stageVars>>
\* lines 267-281: one iteration of the loop over rows_to_modify
ModifyStep ==
    /\ pc = "modify" /\ mi < Len(rows_to_modify)
    /\ result_df' = ApplyMod(result_df, rows_to_modify[mi + 1])
    /\ mi' = mi + 1
    /\ UNCHANGED <<df, i, rows_to_modify, new_rows_to_add, merged, warnings,
                   sorted_new_rows, pc, confVars, stageVars>>

RECURSIVE InsertDesc(_, _)
\* x placed into the descending list s behind every element whose anchor is
\* not smaller (Python's sort is stable, also with reverse=True)
InsertDesc(x, s) ==
    IF s = <<>> THEN <<x>>
    ELSE IF Head(s).pos >= x.pos THEN <<Head(s)>> \o InsertDesc(x, Tail(s))
    ELSE <<x>> \o s

\* the insertions left in scheduling order (ascending anchors)
SortMissing(s) == s

RECURSIVE SortDesc(_)
\* line 286: sorted(new_rows_to_add, key=anchor, reverse=True)
SortDesc(s) ==
    IF s = <<>> THEN <<>>
    ELSE InsertDesc(s[Len(s)], SortDesc(SubSeq(s, 1, Len(s) - 1)))

\* line 286, once the overwrites are applied
ModifyEnd ==
    /\ pc = "modify" /\ mi >= Len(rows_to_modify)
    /\ sorted_new_rows' = SortDesc(new_rows_to_add)
    /\ pc' = "insert"
    /\ UNCHANGED <<df, result_df, i, rows_to_modify, new_rows_to_add, merged,
                   warnings, mi, confVars, stageVars>>

\* lines 290-296: result_df[:p] + [row] + result_df[p:]
InsertAt(t, p, row) ==
    SubSeq(t, 1, p) \o <<row>> \o SubSeq(t, p + 1, Len(t))

InsertStep ==
    /\ pc = "insert" /\ sorted_new_rows # <<>>
    /\ result_df' = InsertAt(result_df, Head(sorted_new_rows).pos + 1,
                             Head(sorted_new_rows).row)
    /\ sorted_new_rows' = Tail(sorted_new_rows)
    /\ UNCHANGED <<df, i, rows_to_modify, new_rows_to_add, merged, warnings,
                   mi, pc, confVars, stageVars>>

\* line 303: the table is written
InsertEnd ==
    /\ pc = "insert" /\ sorted_new_rows = <<>>
    /\ pc' = "done"
    /\ UNCHANGED <<df, result_df, i, rows_to_modify, new_rows_to_add, merged,
                   warnings, mi, sorted_new_rows, confVars, stageVars>>

\* ------------------------------------------------------ confidence scoring
Min(a, b) == IF a <= b THEN a ELSE b
Max(a, b) == IF a >= b THEN a ELSE b
Abs(a) == IF a >= 0 THEN a ELSE 0 - a

\* position of category c in the list g, 0 when absent
CategoryIndex(g, c) ==
    IF \E k \in 1..Len(g) : g[k].category = c
    THEN CHOOSE k \in 1..Len(g) : g[k].category = c
    ELSE 0

RECURSIVE GroupCategoriesLast(_, _)
\* the grouping keeping the depths of the category's last row
GroupCategoriesLast(rows, n) ==
    IF n = 0 THEN <<>>
    ELSE LET g == GroupCategoriesLast(rows, n - 1)
             row == rows[n]
             k == CategoryIndex(g, row.category)
         IN  IF k = 0
             THEN Append(g, [category |-> row.category,
                             start_depth |-> row.top,
                             end_depth |-> row.bottom])
             ELSE [g EXCEPT
                     ![k].start_depth = row.top,
                     ![k].end_depth = row.bottom]

RECURSIVE GroupCategories(_, _)
\* lines 24-44: the first n reference rows grouped per category, in the order
\* the categories first appear, each with min of tops and max of bottoms
GroupCategories(rows, n) ==
    IF n = 0 THEN <<>>
    ELSE LET g == GroupCategories(rows, n - 1)
             row == rows[n]
             k == CategoryIndex(g, row.category)
         IN  IF k = 0
             THEN Append(g, [category |-> row.category,
                             start_depth |-> row.top,
                             end_depth |-> row.bottom])
             ELSE [g EXCEPT
                     ![k].start_depth = Min(@, row.top),
                     ![k].end_depth = Max(@, row.bottom)]

\* the overlap taken from the adjusted start without ordering the interval
overlap_start_unordered(s, e, cat) == Max(s, cat.start_depth)

\* lines 78-82
overlap_start(s, e, cat) == Max(Min(s, e), cat.start_depth)
overlap_end(s, e, cat) == Min(Max(s, e), cat.end_depth)

\* line 85
HasOverlap(s, e, cat) == overlap_start(s, e, cat) <= overlap_end(s, e, cat)

\* lines 69 and 86-98: the rounded confidence of an overlapping category
confidence(s, e, cat) ==
    LET total_length == Abs(e - s)
        overlap_length == Abs(overlap_end(s, e, cat) - overlap_start(s, e, cat))
    IN  IF total_length = 0 THEN Scale
        ELSE Round6Div(overlap_length, total_length)

RECURSIVE RowOutput(_, _, _)
\* lines 72-99: the rows one well row emits over the categories from k on
RowOutput(row, cats, k) ==
    IF k > Len(cats) THEN <<>>
    ELSE (IF HasOverlap(row.adj_start, row.adj_end, cats[k])
          THEN <<[xuhao |-> row.xuhao,
                  category |-> cats[k].category,
                  confidence |-> confidence(row.adj_start, row.adj_end, cats[k])]>>
          ELSE <<>>)
         \o RowOutput(row, cats, k + 1)

\* lines 18-46 and 53
LoadCategories ==
    /\ cpc = "load"
    /\ categories' = GroupCategories(formation_df, Len(formation_df))
    /\ cpc' = "score"
    /\ UNCHANGED <<stageVars, mergeVars, formation_df, well_data_df, output_rows, r>>

\* lines 63-99: one iteration of the loop over the well rows
ScoreRow ==
    /\ cpc = "score" /\ r < Len(well_data_df)
    /\ output_rows' = output_rows \o RowOutput(well_data_df[r + 1], categories, 1)
    /\ r' = r + 1
    /\ UNCHANGED <<stageVars, mergeVars, formation_df, categories, well_data_df, cpc>>

\* lines 102-114: the output table is written
WriteOutput ==
    /\ cpc = "score" /\ r >= Len(well_data_df)
    /\ cpc' = "done"
    /\ UNCHANGED <<stageVars, mergeVars, formation_df, categories, well_data_df,
                   output_rows, r>>

\* category names of the reference table
Categories == {"A", "B"}

\* ------------------------------------------------------- specifications
\* the confidence stage has not been started
ConfIdle ==
    /\ formation_df = <<>>
    /\ categories = <<>>
    /\ well_data_df = <<>>
    /\ output_rows = <<>>
    /\ r = 0
    /\ cpc = "idle"

\* the consolidation pass has not been started
MergeIdle ==
    /\ df = <<>>
    /\ result_df = <<>>
    /\ i = 0
    /\ rows_to_modify = <<>>
    /\ new_rows_to_add = <<>>
    /\ merged = <<>>
    /\ warnings = <<>>
    /\ mi = 0
    /\ sorted_new_rows = <<>>
    /\ pc = "idle"

\* merging.py lines 8-27
Init ==
    /\ \/ GeneralInput(df)
       \/ RunInput(df)
       \/ AggregateInput(df)
       \/ BitRunInput(df)
       \/ MalformedInput(df)
    /\ result_df = df
    /\ i = 0
    /\ rows_to_modify = <<>>
    /\ new_rows_to_add = <<>>
    /\ merged = <<>>
    /\ warnings = <<>>
    /\ mi = 0
    /\ sorted_new_rows = <<>>
    /\ pc = "scan"
    /\ ConfIdle
    /\ MapIdle
    /\ ValIdle
    /\ PipeIdle

Next ==
    \/ ScanPair
    \/ ScanMerge
    \/ ScanMergeRaises
    \/ ScanReject
    \/ ScanSingle
    \/ ScanSkip
    \/ ScanEnd
    \/ ModifyStep
    \/ ModifyEnd
    \/ InsertStep
    \/ InsertEnd

Spec == Init /\ [][Next]_vars

\* rows of the formation reference table: a category, a top and a bottom depth
RefRows ==
    {[category |-> c, top |-> t, bottom |-> b] :
        c \in Categories, t \in 0..MaxDepth, b \in 0..MaxDepth}

\* reference tables of n rows: all rows alike except at most one deviating row
\* (every table of up to two rows is of this kind)
RefTables(n) ==
    {[k \in 1..n |-> IF k = d THEN y ELSE x] :
        d \in 1..n, x \in RefRows, y \in RefRows}

\* well tables of n rows: one run (s, e), given in either order of its two
\* adjusted depths, on every row, except that at most one row has it reversed
WellTables(n) ==
    {[k \in 1..n |->
        [xuhao |-> k,
         adj_start |-> IF k = d THEN e ELSE s,
         adj_end |-> IF k = d THEN s ELSE e]] :
        d \in 0..n, s \in 0..MaxDepth, e \in 0..MaxDepth}

\* analyze_confidence.py lines 14-16 and the two tables the stage reads
InitConf ==
    /\ MergeIdle
    /\ MapIdle
    /\ ValIdle
    /\ PipeIdle
    /\ \E n \in 0..MaxRefRows : formation_df \in RefTables(n)
    /\ \E n \in 0..MaxWellRows : well_data_df \in WellTables(n)
    /\ categories = <<>>
    /\ output_rows = <<>>
    /\ r = 0
    /\ cpc = "load"

NextConf ==
    \/ LoadCategories
    \/ ScoreRow
    \/ WriteOutput

SpecConf == InitConf /\ [][NextConf]_vars

\* ------------------------------------------------------------- properties
\* df.iloc[k]: row k of the table as read
Orig(k) == df[k + 1]

\* the row of the output that carries the label of input row k
OutRow(k) ==
    result_df[CHOOSE j \in 1..Len(result_df) : result_df[j].xuhao = Orig(k).xuhao]

\* the ranges the pass merged
MergedRanges == {merged[m] : m \in 1..Len(merged)}

\* sum of the input footages of rows s..e
InputFootage(s, e) == SumOver([k \in s..e |-> Orig(k).footage], s, e)

\* sum of the output hit-rates of the input rows s..e
HitSum(s, e) == SumOver([k \in s..e |-> OutRow(k).hit], s, e)

\* C1: when the pass is done, every original row of every merged range has
\* footage equal to the sum of the range's input footages and hit-rate equal
\* to its own input footage divided by that sum, rounded to 6 decimals
\* (1.0 when the sum is zero).
C1_RangeRowsRewritten ==
    pc = "done" =>
        \A rg \in MergedRanges :
            LET total == InputFootage(rg[1], rg[2])
            IN  \A k \in rg[1]..rg[2] :
                    /\ OutRow(k).footage = total
                    /\ OutRow(k).hit =
                          IF total = 0 THEN Scale
                          ELSE RoundHalfEven(Orig(k).footage * Scale, total)

\* a merged pair with footages 2 and 1: footage 3 on both rows and hit-rates
\* 0.666667 and 0.333333
C1_Witness ==
    /\ pc = "done"
    /\ \E rg \in MergedRanges :
        /\ rg[2] = rg[1] + 1
        /\ Orig(rg[1]).footage = 2 /\ Orig(rg[2]).footage = 1
        /\ OutRow(rg[1]).footage = 3 /\ OutRow(rg[2]).footage = 3
        /\ OutRow(rg[1]).hit = 666667 /\ OutRow(rg[2]).hit = 333333

\* positions of the output rows labelled 'a<m>'
SynthPositions(m) ==
    {j \in 1..Len(result_df) : result_df[j].xuhao = [syn |-> TRUE, n |-> m]}

\* input row e with the fields the claim lists replaced: label 'a<m>', start
\* depth and start formation of row s, summed footage and time, hit-rate 1.0
ListedOverwrites(m, s, e) ==
    [Orig(e) EXCEPT
        !.xuhao = [syn |-> TRUE, n |-> m],
        !.start = Orig(s).start,
        !.sform = Orig(s).sform,
        !.footage = InputFootage(s, e),
        !.time = SumOver([k \in s..e |-> Orig(k).time], s, e),
        !.hit = Scale]

\* the footage-weighted mean of the input mud densities of rows s..e, rounded
\* to 6 decimals; row e's density when the footages sum to zero
InputWeightedDensity(s, e) ==
    IF InputFootage(s, e) > 0
    THEN RoundHalfEven(
            SumOver([k \in s..e |-> Orig(k).density * Orig(k).footage], s, e),
            InputFootage(s, e))
    ELSE Orig(e).density

\* the input footage of row k if its mechanical rate is not null, else 0
NonNullFootage(k) == IF Orig(k).speed.null THEN 0 ELSE Orig(k).footage

\* the footage-weighted average of the input column val over the rows s..e,
\* rounded to 6 decimals, and the last row's value when the footages sum to 0
FootageAverage(val, s, e) ==
    IF InputFootage(s, e) > 0
    THEN RoundHalfEven(
            SumOver([k \in s..e |-> val[k] * Orig(k).footage], s, e),
            InputFootage(s, e))
    ELSE val[e]

\* the average of the non-null mechanical rates of the rows s..e, weighted by
\* the footages of those rows alone
NonNullAverage(s, e) ==
    Speed(RoundHalfEven(
        SumOver([k \in s..e |-> Orig(k).speed.v * NonNullFootage(k)], s, e),
        SumOver([k \in s..e |-> NonNullFootage(k)], s, e)))

\* the mechanical rate of the record synthesized for rows s..e: the average
\* over the non-null rates, else the last row's rate, else 0.0
InputWeightedSpeed(s, e) ==
    IF SumOver([k \in s..e |-> NonNullFootage(k)], s, e) > 0
    THEN NonNullAverage(s, e)
    ELSE IF Orig(e).speed.null THEN Speed(0)
    ELSE Orig(e).speed

\* C2 as stated: when the pass is done the output holds exactly one
\* synthesized record per merged range, labelled 'a<m>' for the m-th merge,
\* and it equals input row e except for label, start depth, start formation,
\* footage, net drilling time and hit-rate.
C2_Original ==
    pc = "done" =>
        /\ Cardinality({j \in 1..Len(result_df) : result_df[j].xuhao.syn})
              = Len(merged)
        /\ \A m \in 1..Len(merged) :
              /\ Cardinality(SynthPositions(m)) = 1
              /\ \A j \in SynthPositions(m) :
                    result_df[j] = ListedOverwrites(m, merged[m][1], merged[m][2])

\* C2 amended: as C2_Original, and the synthesized record's mud density,
\* mechanical rate and eight sensor values are the footage-weighted means of
\* the range (with their fallbacks) instead of row e's own.
C2_SynthesizedRecord ==
    pc = "done" =>
        /\ Cardinality({j \in 1..Len(result_df) : result_df[j].xuhao.syn})
              = Len(merged)
        /\ \A m \in 1..Len(merged) :
              /\ Cardinality(SynthPositions(m)) = 1
              /\ \A j \in SynthPositions(m) :
                    result_df[j] =
                        [ListedOverwrites(m, merged[m][1], merged[m][2]) EXCEPT
                            !.density = InputWeightedDensity(merged[m][1],
                                                             merged[m][2]),
                            !.speed = InputWeightedSpeed(merged[m][1],
                                                         merged[m][2]),
                            !.sensor = [c \in 1..Len(SensorColumns) |->
                                FootageAverage(
                                    [k \in merged[m][1]..merged[m][2] |->
                                        Orig(k).sensor[c]],
                                    merged[m][1], merged[m][2])]]

\* two merges in one pass, labelled a1 and a2, the second over three rows
\* whose averaged density differs from the last row's
C2_Witness ==
    /\ pc = "done"
    /\ Len(merged) = 2
    /\ merged[2][2] = merged[2][1] + 2
    /\ \E j \in SynthPositions(2) :
        /\ result_df[j].density # Orig(merged[2][2]).density
        /\ result_df[j].start = Orig(merged[2][1]).start
        /\ result_df[j].end = Orig(merged[2][2]).end
    /\ SynthPositions(1) # {}

\* output labels expected from row k on: every input row in order, each
\* merged range's synthesized label right behind the range's last row
RECURSIVE ExpectedLabels(_)
ExpectedLabels(k) ==
    IF k >= Len(df) THEN <<>>
    ELSE <<Orig(k).xuhao>>
         \o (IF \E m \in 1..Len(merged) : merged[m][2] = k
             THEN <<[syn |-> TRUE,
                     n |-> CHOOSE m \in 1..Len(merged) : merged[m][2] = k]>>
             ELSE <<>>)
         \o ExpectedLabels(k + 1)

\* C3: when the pass is done the output is the input rows in their original
\* order with each synthesized record immediately behind the last row of its
\* own range, so its length is the input length plus the number of merges.
C3_OutputOrder ==
    pc = "done" =>
        /\ Len(result_df) = Len(df) + Len(merged)
        /\ [j \in 1..Len(result_df) |-> result_df[j].xuhao] = ExpectedLabels(0)
        /\ \A m \in 1..Len(merged) :
              \A j \in SynthPositions(m) :
                  j > 1 /\ result_df[j - 1].xuhao = Orig(merged[m][2]).xuhao

\* two merges in one pass, neither range at an end of the table
C3_Witness ==
    /\ pc = "done"
    /\ Len(merged) = 2
    /\ Len(result_df) = Len(df) + 2
    /\ merged[1][1] > 0
    /\ merged[2][2] < Len(df) - 1

\* rows s..e of the input are a maximal range of entry counts ascending by 1
MaximalRange(s, e) ==
    /\ 0 <= s /\ s <= e /\ e < Len(df)
    /\ \A k \in s..(e - 1) : Orig(k + 1).entry = Orig(k).entry + 1
    /\ (s = 0 \/ Orig(s).entry # Orig(s - 1).entry + 1)
    /\ (e = Len(df) - 1 \/ Orig(e + 1).entry # Orig(e).entry + 1)

\* conditions (i) and (ii) on the input rows s..e
InputConsistent(s, e) ==
    /\ \A k \in s..e :
          Orig(k).type = Orig(s).type /\ Orig(k).maker = Orig(s).maker
    /\ \A k \in s..(e - 1) : Orig(k).end = Orig(k + 1).start

\* input row k keeps its footage and the default hit-rate in the output
Untouched(k) ==
    /\ OutRow(k).footage = Orig(k).footage
    /\ OutRow(k).hit = Scale

\* C4 as stated: when the pass is done, every maximal range of length > 1 of
\* the input is merged exactly when its bits are identical and its depths
\* continuous, and a range that is not merged has no synthesized record and
\* no rewritten row.
C4_Original ==
    pc = "done" =>
        \A s \in 0..(Len(df) - 1) : \A e \in (s + 1)..(Len(df) - 1) :
            MaximalRange(s, e) =>
                /\ <<s, e>> \in MergedRanges <=> InputConsistent(s, e)
                /\ <<s, e>> \notin MergedRanges =>
                      /\ \A k \in s..e : Untouched(k)
                      /\ \A rg \in MergedRanges : rg[2] \notin s..e

\* C5 as stated: when the pass is done, every input row whose entry count is
\* below 1 has its input footage and hit-rate 1.0 in the output and lies in
\* no merged range.
C5_Original ==
    pc = "done" =>
        \A k \in 0..(Len(df) - 1) :
            Orig(k).entry < 1 =>
                /\ Untouched(k)
                /\ \A rg \in MergedRanges : k \notin rg[1]..rg[2]

\* every input footage of rows s..e is positive
AllPositive(s, e) == \A k \in s..e : Orig(k).footage > 0

\* C6 as stated: when the pass is done, the hit-rates of the rows of a merged
\* range with positive footages sum to 1.0 within 1e-6 (one millionth).
C6_Original ==
    pc = "done" =>
        \A rg \in MergedRanges :
            AllPositive(rg[1], rg[2]) =>
                /\ HitSum(rg[1], rg[2]) - Scale <= 1
                /\ Scale - HitSum(rg[1], rg[2]) <= 1

\* C6 amended: the hit-rates of the n rows of a merged range with positive
\* footages sum to 1.0 within n times half a millionth.
C6_HitRateSum ==
    pc = "done" =>
        \A rg \in MergedRanges :
            AllPositive(rg[1], rg[2]) =>
                LET n == rg[2] - rg[1] + 1
                IN  /\ 2 * (HitSum(rg[1], rg[2]) - Scale) <= n
                    /\ 2 * (Scale - HitSum(rg[1], rg[2])) <= n

\* a merged range of six rows whose rounded hit-rates sum to 1.000002
C6_Witness ==
    /\ pc = "done"
    /\ \E rg \in MergedRanges :
        /\ rg[2] - rg[1] + 1 = 6
        /\ AllPositive(rg[1], rg[2])
        /\ HitSum(rg[1], rg[2]) = Scale + 2

\* C7: when the pass is done, two adjacent input rows that both have entry
\* count 1, the second not followed by a row with entry count 2, lie in no
\* merged range and keep their footage and hit-rate 1.0.
C7_PairNotMerged ==
    pc = "done" =>
        \A k \in 0..(Len(df) - 2) :
            (/\ Orig(k).entry = 1
             /\ Orig(k + 1).entry = 1
             /\ ~(k + 2 < Len(df) /\ Orig(k + 2).entry = 2)) =>
                /\ Untouched(k) /\ Untouched(k + 1)
                /\ \A rg \in MergedRanges :
                      k \notin rg[1]..rg[2] /\ (k + 1) \notin rg[1]..rg[2]

\* a pair of rows with entry count 1 on which the pair case scheduled 1.0,
\* in a table that also holds a merged range
C7_Witness ==
    /\ pc = "done"
    /\ Len(df) >= 2
    /\ Orig(0).entry = 1 /\ Orig(1).entry = 1
    /\ Len(rows_to_modify) >= 2
    /\ rows_to_modify[1] = [kind |-> "plain", idx |-> 0, val |-> Scale]
    /\ rows_to_modify[2] = [kind |-> "plain", idx |-> 1, val |-> Scale]
    /\ ~(2 < Len(df) /\ Orig(2).entry = 2)
    /\ merged # <<>>

\* the reference rows of category c
RefRowsOf(c) == {k \in 1..Len(formation_df) : formation_df[k].category = c}

\* min of tops and max of bottoms over the reference rows of category c
CatLo(c) ==
    CHOOSE d \in {formation_df[k].top : k \in RefRowsOf(c)} :
        \A k \in RefRowsOf(c) : d <= formation_df[k].top
CatHi(c) ==
    CHOOSE d \in {formation_df[k].bottom : k \in RefRowsOf(c)} :
        \A k \in RefRowsOf(c) : d >= formation_df[k].bottom

RunLo(k) == Min(well_data_df[k].adj_start, well_data_df[k].adj_end)
RunHi(k) == Max(well_data_df[k].adj_start, well_data_df[k].adj_end)

\* positions of the output rows of well row k and category c
EmittedAt(k, c) ==
    {j \in 1..Len(output_rows) :
        output_rows[j].xuhao = k /\ output_rows[j].category = c}

\* C8: when the stage is done, a row is emitted for a well row and a category
\* of the reference table exactly when max(run_lo, cat_lo) <= min(run_hi,
\* cat_hi), once, with confidence 1.0 for a run of length zero and otherwise
\* overlap length / run length rounded to 6 decimals; nothing else is emitted.
C8_EmittedRows ==
    cpc = "done" =>
        /\ \A j \in 1..Len(output_rows) :
              /\ output_rows[j].xuhao \in 1..Len(well_data_df)
              /\ RefRowsOf(output_rows[j].category) # {}
        /\ \A k \in 1..Len(well_data_df) :
              \A c \in {formation_df[n].category : n \in 1..Len(formation_df)} :
                  LET lo == Max(RunLo(k), CatLo(c))
                      hi == Min(RunHi(k), CatHi(c))
                  IN  IF lo <= hi
                      THEN /\ Cardinality(EmittedAt(k, c)) = 1
                           /\ \A j \in EmittedAt(k, c) :
                                 output_rows[j].confidence =
                                     IF RunHi(k) = RunLo(k) THEN Scale
                                     ELSE RoundHalfEven((hi - lo) * Scale,
                                                        RunHi(k) - RunLo(k))
                      ELSE EmittedAt(k, c) = {}

\* run [1,3] against category A, whose two reference rows span [0,2], and
\* against category B at [3,3]: confidence 0.5 for A and the touching B
C8_Witness ==
    /\ cpc = "done"
    /\ Len(well_data_df) = 1 /\ Len(formation_df) = 2
    /\ well_data_df[1].adj_start = 1 /\ well_data_df[1].adj_end = 3
    /\ formation_df[1].category = formation_df[2].category
    /\ formation_df[1].top = 1 /\ formation_df[1].bottom = 2
    /\ formation_df[2].top = 0 /\ formation_df[2].bottom = 1
    /\ output_rows = <<[xuhao |-> 1, category |-> formation_df[1].category,
                        confidence |-> 500000]>>

\* C9 as stated: every emitted row carries a confidence greater than 0 and
\* at most 1.
C9_Original ==
    \A j \in 1..Len(output_rows) :
        output_rows[j].confidence > 0 /\ output_rows[j].confidence <= Scale

\* the (category, confidence) pairs emitted for well row k
EmittedFor(k) ==
    {<<output_rows[j].category, output_rows[j].confidence>> :
        j \in {n \in 1..Len(output_rows) : output_rows[n].xuhao = k}}

\* C10: when the stage is done, two well rows of which one has the other's
\* adjusted start as its end and the other's end as its start have the same
\* emitted categories with the same confidences.
C10_SwapSymmetric ==
    cpc = "done" =>
        \A a \in 1..Len(well_data_df) : \A b \in 1..Len(well_data_df) :
            (/\ well_data_df[a].adj_start = well_data_df[b].adj_end
             /\ well_data_df[a].adj_end = well_data_df[b].adj_start) =>
                EmittedFor(a) = EmittedFor(b)

\* the runs (3,1) and (1,3) both scored 0.5 against the same category
C10_Witness ==
    /\ cpc = "done"
    /\ Len(well_data_df) = 2
    /\ well_data_df[1].adj_start = 3 /\ well_data_df[1].adj_end = 1
    /\ well_data_df[2].adj_start = 1 /\ well_data_df[2].adj_end = 3
    /\ \E c \in Categories :
        /\ <<c, 500000>> \in EmittedFor(1)
        /\ <<c, 500000>> \in EmittedFor(2)

\* ====================================================== depth mapping stage
\* stratigraphic-classification/scripts/process_drilling_data.py,
\* StratigraphicClassifier.  Depths of this stage are kept in hundredths of a
\* metre, the two decimals round(x, 2) keeps.  A name is the sequence of its
\* characters, with "d" standing for the suffix character of a member ("段")
\* and "y" for the sub-member marker that precedes it ("亚").

\* half-metre steps of the depth grid above 1000 m
MaxHalf == 2
\* formations of a free reference table
MaxFormations == 2
\* rows of the drilling table the mapping stage reads
MaxMapRows == 2

\* '未知'
Unknown == <<"wei", "zhi">>

\* the least element of a non-empty set of integers
MinOf(S) == CHOOSE x \in S : \A y \in S : x <= y

\* s.replace(c, '') for a single character c
RemoveChar(s, c) == SelectSeq(s, LAMBDA x : x # c)

RECURSIVE RemoveYaDuan(_)
\* s.replace('亚段', '')
RemoveYaDuan(s) ==
    IF Len(s) < 2 THEN s
    ELSE IF s[1] = "y" /\ s[2] = "d" THEN RemoveYaDuan(SubSeq(s, 3, Len(s)))
    ELSE <<s[1]>> \o RemoveYaDuan(Tail(s))

\* s.replace('亚段', '').replace('1', '').replace('2', '').replace('3', '')
StripSubMember(s) ==
    RemoveChar(RemoveChar(RemoveChar(RemoveYaDuan(s), "1"), "2"), "3")

\* a in b, for strings
IsSubstring(a, b) ==
    \E k \in 0..(Len(b) - Len(a)) : SubSeq(b, k + 1, k + Len(a)) = a

\* a dictionary position: a string holding a number of quarters, or a string
\* that float() rejects
Num(q) == [t |-> "numstr", q |-> q]
NotNum == [t |-> "str", q |-> 0]

\* results of calculate_mapped_depth: None, a depth, or an exception raised
None == [kind |-> "none", v |-> 0]
Value(x) == [kind |-> "value", v |-> x]
Raised == [kind |-> "raise", v |-> 0]

\* the keys of self.formation_depths equal to the name
ExactKeys(formation_name) ==
    {k \in 1..Len(formation_depths) : formation_depths[k].name = formation_name}

\* the list similar_formations, as positions in table order
similar_formations(formation_name) ==
    {k \in 1..Len(formation_depths) :
        \/ IsSubstring(RemoveChar(formation_name, "d"), formation_depths[k].name)
        \/ StripSubMember(formation_depths[k].name)
               = RemoveChar(formation_name, "d")}

\* mapped_depth of the position within formation k, rounded to two decimals:
\* float(position_value) * (bottom - top) + top
mapped_depth_round_down(position_value, k) ==
    IF position_value.t # "numstr" THEN Raised
    ELSE Value((position_value.q
                   * (formation_depths[k].bottom - formation_depths[k].top)
                + 4 * formation_depths[k].top) \div 4)
mapped_depth(position_value, k) ==
    IF position_value.t # "numstr" THEN Raised
    ELSE Value(RoundHalfEven(
                position_value.q
                   * (formation_depths[k].bottom - formation_depths[k].top)
                + 4 * formation_depths[k].top, 4))

calculate_mapped_depth(position_value, formation_name) ==
    IF Len(formation_depths) = 0 THEN None
    ELSE IF ExactKeys(formation_name) # {}
    THEN mapped_depth(position_value, MinOf(ExactKeys(formation_name)))
    ELSE IF similar_formations(formation_name) # {}
    THEN mapped_depth(position_value, MinOf(similar_formations(formation_name)))
    ELSE None

\* the formations whose [top, bottom) holds the depth
Containing(depth) ==
    {k \in 1..Len(formation_depths) :
        formation_depths[k].top <= depth /\ depth < formation_depths[k].bottom}

\* max of the bottom depths of a non-empty table
max_depth ==
    CHOOSE m \in {formation_depths[k].bottom : k \in 1..Len(formation_depths)} :
        \A k \in 1..Len(formation_depths) : formation_depths[k].bottom <= m

predict_formation_closed(depth) ==
    IF Len(formation_depths) = 0 THEN Unknown
    ELSE LET closed == {k \in 1..Len(formation_depths) :
                           /\ formation_depths[k].top <= depth
                           /\ depth <= formation_depths[k].bottom}
         IN  IF closed # {} THEN formation_depths[MinOf(closed)].name
             ELSE Unknown
predict_formation_by_depth(depth) ==
    IF Len(formation_depths) = 0 THEN Unknown
    ELSE IF Containing(depth) # {}
    THEN formation_depths[MinOf(Containing(depth))].name
    ELSE IF depth = max_depth
    THEN formation_depths[MinOf({k \in 1..Len(formation_depths) :
                                    formation_depths[k].bottom = max_depth})].name
    ELSE Unknown

\* '是' / '否' of the agreement between predicted and declared formation
compare_predicted_and_actual(predicted, actual) ==
    IF predicted = actual THEN "yes"
    ELSE IF StripSubMember(predicted) = RemoveChar(actual, "d") THEN "yes"
    ELSE IF StripSubMember(actual) = RemoveChar(predicted, "d") THEN "yes"
    ELSE "no"

\* labels: "yes" ('是'), "low" ('偏小'), "high" ('偏大'),
\* "undetermined" ('无法判断')
check_depth_range_open(actual_depth, mapped_depth_start, mapped_depth_end) ==
    IF mapped_depth_start.kind = "none" \/ mapped_depth_end.kind = "none"
    THEN "undetermined"
    ELSE IF /\ Min(mapped_depth_start.v, mapped_depth_end.v) < actual_depth
            /\ actual_depth < Max(mapped_depth_start.v, mapped_depth_end.v)
    THEN "yes"
    ELSE IF actual_depth < Min(mapped_depth_start.v, mapped_depth_end.v)
    THEN "low"
    ELSE "high"
check_depth_range(actual_depth, mapped_depth_start, mapped_depth_end) ==
    IF mapped_depth_start.kind = "none" \/ mapped_depth_end.kind = "none"
    THEN "undetermined"
    ELSE IF /\ Min(mapped_depth_start.v, mapped_depth_end.v) <= actual_depth
            /\ actual_depth <= Max(mapped_depth_start.v, mapped_depth_end.v)
    THEN "yes"
    ELSE IF actual_depth < Min(mapped_depth_start.v, mapped_depth_end.v)
    THEN "low"
    ELSE "high"

adjust_depth_based_on_judgment(judgment, actual_depth, top_mapped_depth, bottom_mapped_depth) ==
    IF judgment = "yes" THEN actual_depth
    ELSE IF judgment = "high"
    THEN IF top_mapped_depth.kind # "none" /\ bottom_mapped_depth.kind # "none"
         THEN Max(top_mapped_depth.v, bottom_mapped_depth.v)
         ELSE actual_depth
    ELSE IF judgment = "low"
    THEN IF top_mapped_depth.kind # "none" /\ bottom_mapped_depth.kind # "none"
         THEN Min(top_mapped_depth.v, bottom_mapped_depth.v)
         ELSE actual_depth
    ELSE actual_depth

\* the values round((a + b) / 2, 2) can take for two depths of two decimals:
\* the sum of two multiples of 0.25 is exact in binary floating point and a
\* tie goes to the even neighbour; for other operands a tie is decided by the
\* representation error, so either neighbour is possible
Midpoints(a, b) ==
    IF (a + b) % 2 = 0 THEN {(a + b) \div 2}
    ELSE IF a % 25 = 0 /\ b % 25 = 0 THEN {RoundHalfEven(a + b, 2)}
    ELSE {(a + b) \div 2, (a + b) \div 2 + 1}

\* the default of stratigraphic_dict.get(formation, {...})
DefaultInfo ==
    [kind |-> "map", has |-> {"parent", "top", "bot"}, parent |-> Unknown,
     top |-> Num(0), bot |-> Num(4)]

\* self.stratigraphic_dict.get(formation, default)
InfoOf(formation) ==
    IF formation \in DOMAIN stratigraphic_dict
    THEN stratigraphic_dict[formation]
    ELSE DefaultInfo

\* the drilling row being read
CurrentRow == input_csv[row_no + 1]

start_top_mapped_depth ==
    calculate_mapped_depth(InfoOf(CurrentRow.sform).top,
                           InfoOf(CurrentRow.sform).parent)
start_bottom_mapped_depth ==
    calculate_mapped_depth(InfoOf(CurrentRow.sform).bot,
                           InfoOf(CurrentRow.sform).parent)
end_top_mapped_depth ==
    calculate_mapped_depth(InfoOf(CurrentRow.eform).top,
                           InfoOf(CurrentRow.eform).parent)
end_bottom_mapped_depth ==
    calculate_mapped_depth(InfoOf(CurrentRow.eform).bot,
                           InfoOf(CurrentRow.eform).parent)

\* start_info["..."] raises: the entry is no mapping (TypeError) or lacks one
\* of the three fields (KeyError)
InfoRaises(details) ==
    details.kind # "map" \/ details.has # {"parent", "top", "bot"}

\* an exception is raised while the current row is processed: a depth field
\* that float() rejects, an entry without the fields read from it, or a
\* position that float() rejects
RowRaises ==
    \/ ~CurrentRow.start.ok
    \/ ~CurrentRow.end.ok
    \/ InfoRaises(InfoOf(CurrentRow.sform))
    \/ InfoRaises(InfoOf(CurrentRow.eform))
    \/ start_top_mapped_depth.kind = "raise"
    \/ start_bottom_mapped_depth.kind = "raise"
    \/ end_top_mapped_depth.kind = "raise"
    \/ end_bottom_mapped_depth.kind = "raise"

start_depth_in_range ==
    check_depth_range(CurrentRow.start.v, start_top_mapped_depth,
                      start_bottom_mapped_depth)
end_depth_in_range ==
    check_depth_range(CurrentRow.end.v, end_top_mapped_depth,
                      end_bottom_mapped_depth)

\* the values adjusted_start_depth can take after the special rule
adjusted_start_never_midpoint ==
    {adjust_depth_based_on_judgment(start_depth_in_range, CurrentRow.start.v,
         start_top_mapped_depth, start_bottom_mapped_depth)}
adjusted_start_depths ==
    IF /\ start_depth_in_range = "high" /\ end_depth_in_range = "high"
       /\ start_top_mapped_depth.kind # "none"
       /\ start_bottom_mapped_depth.kind # "none"
    THEN Midpoints(start_top_mapped_depth.v, start_bottom_mapped_depth.v)
    ELSE {adjust_depth_based_on_judgment(start_depth_in_range,
              CurrentRow.start.v, start_top_mapped_depth,
              start_bottom_mapped_depth)}

\* the values adjusted_end_depth can take after the special rule (preceded by
\* a variant that applies the both-'low' rule on the end label alone)
adjusted_end_low_alone ==
    IF /\ end_depth_in_range = "low"
       /\ end_top_mapped_depth.kind # "none"
       /\ end_bottom_mapped_depth.kind # "none"
    THEN Midpoints(end_top_mapped_depth.v, end_bottom_mapped_depth.v)
    ELSE {adjust_depth_based_on_judgment(end_depth_in_range,
              CurrentRow.end.v, end_top_mapped_depth, end_bottom_mapped_depth)}
adjusted_end_depths ==
    IF /\ start_depth_in_range = "low" /\ end_depth_in_range = "low"
       /\ end_top_mapped_depth.kind # "none"
       /\ end_bottom_mapped_depth.kind # "none"
    THEN Midpoints(end_top_mapped_depth.v, end_bottom_mapped_depth.v)
    ELSE {adjust_depth_based_on_judgment(end_depth_in_range,
              CurrentRow.end.v, end_top_mapped_depth, end_bottom_mapped_depth)}

\* new_row
NewRow(adjusted_start_depth, adjusted_end_depth) ==
    [xuhao |-> CurrentRow.xuhao,
     start_depth |-> CurrentRow.start.v,
     end_depth |-> CurrentRow.end.v,
     sform |-> CurrentRow.sform,
     start_parent |-> InfoOf(CurrentRow.sform).parent,
     start_top_pos |-> InfoOf(CurrentRow.sform).top,
     start_top_mapped |-> start_top_mapped_depth,
     start_bottom_pos |-> InfoOf(CurrentRow.sform).bot,
     start_bottom_mapped |-> start_bottom_mapped_depth,
     eform |-> CurrentRow.eform,
     end_parent |-> InfoOf(CurrentRow.eform).parent,
     end_top_pos |-> InfoOf(CurrentRow.eform).top,
     end_top_mapped |-> end_top_mapped_depth,
     end_bottom_pos |-> InfoOf(CurrentRow.eform).bot,
     end_bottom_mapped |-> end_bottom_mapped_depth,
     predicted_start |-> predict_formation_by_depth(CurrentRow.start.v),
     start_consistency |->
         compare_predicted_and_actual(
             predict_formation_by_depth(CurrentRow.start.v),
             InfoOf(CurrentRow.sform).parent),
     start_in_range |-> start_depth_in_range,
     predicted_end |-> predict_formation_by_depth(CurrentRow.end.v),
     end_consistency |->
         compare_predicted_and_actual(
             predict_formation_by_depth(CurrentRow.end.v),
             InfoOf(CurrentRow.eform).parent),
     end_in_range |-> end_depth_in_range,
     adjusted_start |-> adjusted_start_depth,
     adjusted_end |-> adjusted_end_depth]

\* one iteration of the row loop that appends new_row
ProcessRow ==
    /\ mpc = "rows"
    /\ row_no < Len(input_csv)
    /\ ~RowRaises
    /\ \E adjusted_start_depth \in adjusted_start_depths,
          adjusted_end_depth \in adjusted_end_depths :
           processed_rows' = Append(processed_rows,
               NewRow(adjusted_start_depth, adjusted_end_depth))
    /\ row_no' = row_no + 1
    /\ UNCHANGED <<stratigraphic_dict, formation_depths, input_csv, output_csv,
                   mpc, mergeVars, confVars, valVars, pipeVars>>

\* an exception in the row loop: the except clause returns False
ProcessRowError ==
    /\ mpc = "rows"
    /\ row_no < Len(input_csv)
    /\ RowRaises
    /\ mpc' = "failed"
    /\ UNCHANGED <<stratigraphic_dict, formation_depths, input_csv,
                   processed_rows, output_csv, row_no, mergeVars, confVars, valVars, pipeVars>>

\* after the loop: the rows are written to output_csv
SaveResults ==
    /\ mpc = "rows"
    /\ row_no = Len(input_csv)
    /\ output_csv' = [written |-> TRUE, rows |-> processed_rows]
    /\ mpc' = "done"
    /\ UNCHANGED <<stratigraphic_dict, formation_depths, input_csv,
                   processed_rows, row_no, mergeVars, confVars, valVars, pipeVars>>

\* ----------------------------------------------- inputs of the mapping stage
\* depths of reference tables and drilling rows: a half-metre grid above
\* 1000 m, and 1200 m
DepthGrid == {100000 + 50 * h : h \in 0..MaxHalf} \cup {120000}

\* names of reference-table formations
P1 == <<"P", "1">>
P1Q == <<"P", "1", "Q">>
TableNames == {P1, <<"Q">>, P1Q}

\* parents declared by dictionary entries: the key P1 itself, names that reach
\* P1 or P1Q through the fallback only, and names that match nothing
ParentNames == {P1, <<"P">>, <<"P", "d">>, <<"P", "Q">>, <<"Z">>}

\* formation names of drilling rows
FormA == <<"A", "d">>
FormB == <<"B", "d">>

\* (top position, bottom position) of a dictionary entry
PosPairs ==
    {<<Num(0), Num(4)>>, <<Num(4), Num(0)>>, <<Num(0), Num(2)>>,
     <<Num(1), Num(3)>>, <<Num(2), Num(2)>>, <<Num(0), NotNum>>}

\* the k-th key of a free reference table
NameAt(k) == IF k = 1 THEN P1 ELSE [j \in 1..(k - 1) |-> "Q"]

\* free reference tables of n formations: all depth intervals alike except at
\* most one deviating formation
DepthTables(n) ==
    {[k \in 1..n |->
        [name |-> NameAt(k),
         top |-> IF k = d THEN t2 ELSE t1,
         bottom |-> IF k = d THEN b2 ELSE b1]] :
        d \in 1..n, t1 \in DepthGrid, b1 \in DepthGrid,
        t2 \in DepthGrid, b2 \in DepthGrid}

\* n drilling rows from s to e, alike except that the start depth of row bad
\* (if any) does not parse
DrillRows(n, s, e, sf, ef, bad) ==
    [k \in 1..n |->
        [xuhao |-> k,
         start |-> [ok |-> k # bad, v |-> s],
         end |-> [ok |-> TRUE, v |-> e],
         sform |-> sf,
         eform |-> ef]]

\* the reference tables of the mapping inputs: empty, one formation starting
\* at 1000 m, or that formation behind another one whose name holds "P1"
MappingTable(shape, name, bottom) ==
    IF shape = "empty" THEN <<>>
    ELSE IF shape = "one"
    THEN <<[name |-> name, top |-> 100000, bottom |-> bottom]>>
    ELSE <<[name |-> IF name = P1Q THEN P1 ELSE P1Q,
            top |-> 100050, bottom |-> 120000],
           [name |-> name, top |-> 100000, bottom |-> bottom]>>

\* a dictionary entry that is a mapping with the three fields
DictEntry(parent, top, bot) ==
    [kind |-> "map", has |-> {"parent", "top", "bot"}, parent |-> parent,
     top |-> top, bot |-> bot]

\* the dictionaries of the mapping inputs: FormA with a free entry, and
\* possibly FormB mapped to the whole of the named reference formation
MappingDict(parent, pp, withB, name) ==
    IF withB
    THEN (FormA :> DictEntry(parent, pp[1], pp[2]))
         @@ (FormB :> DictEntry(name, Num(0), Num(4)))
    ELSE (FormA :> DictEntry(parent, pp[1], pp[2]))

\* one drilling row starting in FormA whose end formation is FormA again
\* ("same"), a formation the dictionary lacks ("missing"), or FormB ("other")
MappingInput ==
    \E shape \in {"empty", "one", "two"}, name \in TableNames,
       bottom \in DepthGrid, parent \in ParentNames, pp \in PosPairs,
       endKind \in {"same", "missing", "other"},
       s \in DepthGrid, e \in DepthGrid :
        /\ formation_depths = MappingTable(shape, name, bottom)
        /\ stratigraphic_dict = MappingDict(parent, pp, endKind = "other", name)
        /\ input_csv =
               DrillRows(1, s, e, FormA,
                         IF endKind = "same" THEN FormA ELSE FormB, 0)

\* up to MaxMapRows drilling rows of which one has a start depth that does
\* not parse, over the reference formation P1 from 1000 m to 1200 m
BadRowInput ==
    \E n \in 1..MaxMapRows, pp \in PosPairs, s \in DepthGrid, e \in DepthGrid :
        \E bad \in 1..n :
            /\ formation_depths = MappingTable("one", P1, 120000)
            /\ stratigraphic_dict = MappingDict(P1, pp, FALSE, P1)
            /\ input_csv = DrillRows(n, s, e, FormA, FormA, bad)

\* a free reference table, an empty dictionary and one drilling row
PredictInput ==
    \E n \in 0..MaxFormations, s \in DepthGrid, e \in DepthGrid :
        /\ formation_depths \in DepthTables(n)
        /\ stratigraphic_dict = <<>>
        /\ input_csv = DrillRows(1, s, e, FormA, FormA, 0)

\* process_drilling_data.py lines 148-153: both tables loaded, no row read
InitMap ==
    /\ MergeIdle
    /\ ConfIdle
    /\ ValIdle
    /\ PipeIdle
    /\ (MappingInput \/ BadRowInput \/ PredictInput)
    /\ processed_rows = <<>>
    /\ output_csv = NoFile
    /\ row_no = 0
    /\ mpc = "rows"

NextMap ==
    \/ ProcessRow
    \/ ProcessRowError
    \/ SaveResults

SpecMap == InitMap /\ [][NextMap]_vars

\* ------------------------------------------- properties of the mapping stage
\* both mapped depths of a boundary are defined
BothDefined(mt, mb) == mt.kind = "value" /\ mb.kind = "value"

\* the label the claim ties to an actual depth and two mapped depths
BoundaryLabelOK(actual, mt, mb, label) ==
    /\ label \in {"yes", "low", "high", "undetermined"}
    /\ (label = "undetermined") <=> ~BothDefined(mt, mb)
    /\ BothDefined(mt, mb) =>
           /\ (label = "yes") <=> (Min(mt.v, mb.v) <= actual
                                   /\ actual <= Max(mt.v, mb.v))
           /\ (label = "low") <=> (actual < Min(mt.v, mb.v))
           /\ (label = "high") <=> (actual > Max(mt.v, mb.v))

\* the per-boundary adjusted depth the claim states for a label
PerBoundary(actual, mt, mb, label) ==
    IF label = "high" THEN Max(mt.v, mb.v)
    ELSE IF label = "low" THEN Min(mt.v, mb.v)
    ELSE actual

BothHigh(o) == o.start_in_range = "high" /\ o.end_in_range = "high"
BothLow(o) == o.start_in_range = "low" /\ o.end_in_range = "low"

\* C11: in every row the mapping stage builds, each boundary's label is
\* 'in-range' iff lo <= actual <= hi, 'low' iff actual < lo, 'high' iff
\* actual > hi, and 'indeterminate' iff a mapped depth is undefined (lo, hi the
\* smaller and larger mapped depth, whichever is the top); and the boundary's
\* adjusted depth, where the cross-boundary rule leaves it alone, is the
\* actual depth for 'in-range' and 'indeterminate', hi for 'high', lo for 'low'
C11_LabelAndAdjustment ==
    \A k \in 1..Len(processed_rows) :
        LET o == processed_rows[k]
        IN  /\ BoundaryLabelOK(o.start_depth, o.start_top_mapped,
                               o.start_bottom_mapped, o.start_in_range)
            /\ BoundaryLabelOK(o.end_depth, o.end_top_mapped,
                               o.end_bottom_mapped, o.end_in_range)
            /\ ~BothHigh(o) =>
                   o.adjusted_start =
                       PerBoundary(o.start_depth, o.start_top_mapped,
                                   o.start_bottom_mapped, o.start_in_range)
            /\ ~BothLow(o) =>
                   o.adjusted_end =
                       PerBoundary(o.end_depth, o.end_top_mapped,
                                   o.end_bottom_mapped, o.end_in_range)

\* a written row whose start lies above both mapped depths of a formation
\* mapped bottom-up (mapped top > mapped bottom) and was moved to the mapped
\* top, while its end boundary is indeterminate and kept
C11_Witness ==
    /\ mpc = "done"
    /\ \E k \in 1..Len(output_csv.rows) :
           LET o == output_csv.rows[k]
           IN  /\ o.start_in_range = "high"
               /\ BothDefined(o.start_top_mapped, o.start_bottom_mapped)
               /\ o.start_top_mapped.v > o.start_bottom_mapped.v
               /\ o.start_depth > o.start_top_mapped.v
               /\ o.adjusted_start = o.start_top_mapped.v
               /\ o.end_in_range = "undetermined"
               /\ o.adjusted_end = o.end_depth

\* x is (a + b) / 2 rounded to two decimals
IsMidpoint(x, a, b) == 2 * x - (a + b) \in {0 - 1, 0, 1}

\* C12: the adjusted start depth is the midpoint of the start formation's
\* mapped top and bottom when both boundaries are labelled 'high', and the
\* per-boundary adjusted depth otherwise; the adjusted end depth is the
\* midpoint of the end formation's mapped top and bottom when both are
\* labelled 'low', and the per-boundary adjusted depth otherwise
C12_MidpointSubstitution ==
    \A k \in 1..Len(processed_rows) :
        LET o == processed_rows[k]
        IN  /\ IF BothHigh(o)
               THEN IsMidpoint(o.adjusted_start, o.start_top_mapped.v,
                               o.start_bottom_mapped.v)
               ELSE o.adjusted_start =
                        PerBoundary(o.start_depth, o.start_top_mapped,
                                    o.start_bottom_mapped, o.start_in_range)
            /\ IF BothLow(o)
               THEN IsMidpoint(o.adjusted_end, o.end_top_mapped.v,
                               o.end_bottom_mapped.v)
               ELSE o.adjusted_end =
                        PerBoundary(o.end_depth, o.end_top_mapped,
                                    o.end_bottom_mapped, o.end_in_range)

\* a written row with both boundaries 'high' whose adjusted start is the
\* midpoint, strictly below the larger mapped depth of the start formation,
\* and whose adjusted end is the larger mapped depth of the end formation
C12_Witness ==
    /\ mpc = "done"
    /\ \E k \in 1..Len(output_csv.rows) :
           LET o == output_csv.rows[k]
           IN  /\ BothHigh(o)
               /\ o.adjusted_start
                      < Max(o.start_top_mapped.v, o.start_bottom_mapped.v)
               /\ o.adjusted_start
                      > Min(o.start_top_mapped.v, o.start_bottom_mapped.v)
               /\ o.adjusted_end
                      = Max(o.end_top_mapped.v, o.end_bottom_mapped.v)

\* v is q/4 * (bottom - top) + top rounded to two decimals, ties to even
IsRoundedMapping(v, q, top, bottom) ==
    LET num == q * (bottom - top) + 4 * top
    IN  /\ 4 * v - num \in (0 - 2)..2
        /\ (4 * v - num \in {0 - 2, 2}) => v % 2 = 0

\* the mapped depth the claim states for a position and a parent name
MappedDepthOK(m, pos, parent) ==
    /\ \A j \in 1..Len(formation_depths) :
           formation_depths[j].name = parent =>
               /\ m.kind = "value"
               /\ IsRoundedMapping(m.v, pos.q, formation_depths[j].top,
                                   formation_depths[j].bottom)
    /\ (ExactKeys(parent) = {} /\ similar_formations(parent) = {}) =>
           m = None

\* C13: in every row the mapping stage builds, a mapped depth whose parent is
\* a key of the reference table is position * (bottom - top) + top of that key
\* rounded to two decimals, also when an earlier key would match through the
\* fallback; a mapped depth whose parent has neither an exact nor a fallback
\* match is undefined
C13_MappedDepth ==
    \A k \in 1..Len(processed_rows) :
        LET o == processed_rows[k]
        IN  /\ MappedDepthOK(o.start_top_mapped, o.start_top_pos, o.start_parent)
            /\ MappedDepthOK(o.start_bottom_mapped, o.start_bottom_pos,
                             o.start_parent)
            /\ MappedDepthOK(o.end_top_mapped, o.end_top_pos, o.end_parent)
            /\ MappedDepthOK(o.end_bottom_mapped, o.end_bottom_pos, o.end_parent)

\* the scenario of the claim: P1 from 1000 to 1200, positions 0.0 and 0.5
\* mapped to 1000.00 and 1100.00, P1 being the second key behind a key that
\* the fallback would match; and the end formation has no match at all
C13_Witness ==
    /\ mpc = "done"
    /\ Len(formation_depths) = 2
    /\ formation_depths[2] = [name |-> P1, top |-> 100000, bottom |-> 120000]
    /\ 1 \in similar_formations(P1)
    /\ \E k \in 1..Len(output_csv.rows) :
           LET o == output_csv.rows[k]
           IN  /\ o.start_parent = P1
               /\ o.start_top_pos = Num(0)
               /\ o.start_bottom_pos = Num(2)
               /\ o.start_top_mapped = Value(100000)
               /\ o.start_bottom_mapped = Value(110000)
               /\ o.end_parent = Unknown
               /\ o.end_top_mapped = None

\* the prediction the claim states for a depth
PredictionOK(depth, predicted) ==
    LET n == Len(formation_depths)
        holds(j) == /\ formation_depths[j].top <= depth
                    /\ depth < formation_depths[j].bottom
        isMax(j) == \A l \in 1..n :
                        formation_depths[l].bottom <= formation_depths[j].bottom
    IN  IF \E j \in 1..n : holds(j)
        THEN \E j \in 1..n :
                 /\ holds(j)
                 /\ \A l \in 1..(j - 1) : ~holds(l)
                 /\ predicted = formation_depths[j].name
        ELSE IF \E j \in 1..n : isMax(j) /\ formation_depths[j].bottom = depth
        THEN \E j \in 1..n :
                 /\ isMax(j)
                 /\ formation_depths[j].bottom = depth
                 /\ predicted = formation_depths[j].name
        ELSE predicted = Unknown

\* C14: the formation predicted for a depth is the first formation in table
\* order whose [top, bottom) holds the depth; if there is none and the depth
\* equals the maximum bottom depth, a formation with that bottom depth;
\* otherwise, 'unknown'
C14_Prediction ==
    \A k \in 1..Len(processed_rows) :
        LET o == processed_rows[k]
        IN  /\ PredictionOK(o.start_depth, o.predicted_start)
            /\ PredictionOK(o.end_depth, o.predicted_end)

\* a two-formation table with a gap: the start depth equals the bottom of the
\* first formation, which is not the maximum and starts no formation, and is
\* predicted 'unknown'; the end depth equals the maximum bottom and is
\* predicted as the second formation
C14_Witness ==
    /\ mpc = "done"
    /\ Len(formation_depths) = 2
    /\ formation_depths[1].top < formation_depths[1].bottom
    /\ formation_depths[1].bottom < formation_depths[2].top
    /\ formation_depths[2].top < formation_depths[2].bottom
    /\ \E k \in 1..Len(output_csv.rows) :
           LET o == output_csv.rows[k]
           IN  /\ o.start_depth = formation_depths[1].bottom
               /\ o.predicted_start = Unknown
               /\ o.end_depth = formation_depths[2].bottom
               /\ o.predicted_end = formation_depths[2].name

\* ===================================================== dictionary validator
\* stratigraphic-classification/scripts/validate_dictionary.py,
\* DictionaryValidator.validate_dictionary.  A dictionary entry is a record:
\* kind tells what JSON value it is ("map", a string "str", or "null"), has
\* the fields a mapping holds; a position is Num(q), NotNum, null or a list.

\* formation names of one validation run
MaxNames == 3

\* a JSON null and a JSON list in place of a position
NullValue == [t |-> "null", q |-> 0]
ListValue == [t |-> "list", q |-> 0]

\* field in details (lines 94 and 109): a substring test on a string that
\* holds no field name, a key test on a mapping
FieldIn(field, details) == details.kind = "map" /\ field \in details.has

\* field in details raises TypeError: None is not iterable
FieldInRaises(details) == details.kind = "null"

\* float(value) raises ValueError / TypeError
FloatValueError(value) == value.t = "str"
FloatTypeError(value) == value.t \in {"null", "list"}

\* 0 <= value <= 1 for a position of q quarters
InUnitRangeOpen(q) == 0 <= q /\ q < 4
InUnitRange(q) == 0 <= q /\ q <= 4

\* an error of the list: the check it comes from, the formation names it
\* names and the field it is about ("" if none)
Error(check, names, field) == [check |-> check, names |-> names, field |-> field]

\* lines 84-86
missing_in_dict == datatest_formations \ DOMAIN json_data

CompletenessErrorsEach ==
    {Error("completeness", {f}, "") : f \in missing_in_dict}
CompletenessErrors ==
    IF missing_in_dict # {}
    THEN {Error("completeness", missing_in_dict, "")}
    ELSE {}

\* the formations both loops look at
Referenced == datatest_formations \cap DOMAIN json_data

\* lines 89-100, the errors of one formation
ParentErrorsOf(formation) ==
    IF ~FieldIn("parent", json_data[formation])
    THEN {Error("parent_field_missing", {formation}, "parent")}
    ELSE IF json_data[formation].parent \notin stratigraphic_formations
    THEN {Error("parent_unknown", {formation}, "parent")}
    ELSE {}

ParentErrorsUnlessIncomplete ==
    IF missing_in_dict # {} THEN {}
    ELSE UNION {ParentErrorsOf(formation) : formation \in Referenced}
ParentErrors == UNION {ParentErrorsOf(formation) : formation \in Referenced}

\* lines 108-118, the errors of one field of one formation
FieldErrorsOf(formation, field) ==
    LET details == json_data[formation]
        value == IF field = "top" THEN details.top ELSE details.bot
    IN  IF ~FieldIn(field, details)
        THEN {Error("field_missing", {formation}, field)}
        ELSE IF FloatValueError(value)
        THEN {Error("not_a_number", {formation}, field)}
        ELSE IF ~InUnitRange(value.q)
        THEN {Error("out_of_range", {formation}, field)}
        ELSE {}

RangeErrors ==
    UNION {FieldErrorsOf(formation, field) :
               formation \in Referenced, field \in {"top", "bot"}}

\* an exception leaves the parent loop
ParentLoopRaises ==
    \E formation \in Referenced : FieldInRaises(json_data[formation])

\* an exception leaves the range loop
RangeLoopRaises ==
    \E formation \in Referenced :
        \/ FieldInRaises(json_data[formation])
        \/ /\ FieldIn("top", json_data[formation])
           /\ FloatTypeError(json_data[formation].top)
        \/ /\ FieldIn("bot", json_data[formation])
           /\ FloatTypeError(json_data[formation].bot)

\* lines 71-81: an empty input returns one error
ReturnEmptyInput ==
    /\ vpc = "start"
    /\ \/ DOMAIN json_data = {}
       \/ datatest_formations = {}
       \/ stratigraphic_formations = {}
    /\ errors' =
           IF DOMAIN json_data = {} THEN {Error("empty_dictionary", {}, "")}
           ELSE IF datatest_formations = {}
           THEN {Error("empty_datatest", {}, "")}
           ELSE {Error("empty_stratigraphic", {}, "")}
    /\ vpc' = "returned"
    /\ UNCHANGED <<json_data, datatest_formations, stratigraphic_formations,
                   mergeVars, confVars, mapVars, pipeVars>>

\* lines 84-86
CheckCompleteness ==
    /\ vpc = "start"
    /\ DOMAIN json_data # {}
    /\ datatest_formations # {}
    /\ stratigraphic_formations # {}
    /\ errors' = CompletenessErrors
    /\ vpc' = "parents"
    /\ UNCHANGED <<json_data, datatest_formations, stratigraphic_formations,
                   mergeVars, confVars, mapVars, pipeVars>>

\* lines 89-100
CheckParents ==
    /\ vpc = "parents"
    /\ ~ParentLoopRaises
    /\ errors' = errors \cup ParentErrors
    /\ vpc' = "ranges"
    /\ UNCHANGED <<json_data, datatest_formations, stratigraphic_formations,
                   mergeVars, confVars, mapVars, pipeVars>>

\* line 94 raises
CheckParentsRaises ==
    /\ vpc = "parents"
    /\ ParentLoopRaises
    /\ vpc' = "raised"
    /\ UNCHANGED <<json_data, datatest_formations, stratigraphic_formations,
                   errors, mergeVars, confVars, mapVars, pipeVars>>

\* lines 103-120
CheckRanges ==
    /\ vpc = "ranges"
    /\ ~RangeLoopRaises
    /\ errors' = errors \cup RangeErrors
    /\ vpc' = "returned"
    /\ UNCHANGED <<json_data, datatest_formations, stratigraphic_formations,
                   mergeVars, confVars, mapVars, pipeVars>>

\* line 114 raises an exception that line 117 does not catch
CheckRangesRaises ==
    /\ vpc = "ranges"
    /\ RangeLoopRaises
    /\ vpc' = "raised"
    /\ UNCHANGED <<json_data, datatest_formations, stratigraphic_formations,
                   errors, mergeVars, confVars, mapVars, pipeVars>>

\* --------------------------------------------------- inputs of the validator
\* the k-th formation name of a drilling table
FormationAt(k) == <<"F">> \o [j \in 1..k |-> "i"] \o <<"d">>

FormationPool == {FormationAt(k) : k \in 1..MaxNames}

\* an entry that passes every check against the reference name P1
GoodEntry ==
    [kind |-> "map", has |-> {"parent", "top", "bot"}, parent |-> P1,
     top |-> Num(0), bot |-> Num(4)]

\* the entries of the inputs: GoodEntry with at most one defect
Entries ==
    {GoodEntry,
     [GoodEntry EXCEPT !.parent = <<"Z">>],
     [GoodEntry EXCEPT !.has = {"top", "bot"}],
     [GoodEntry EXCEPT !.top = Num(5)],
     [GoodEntry EXCEPT !.bot = NotNum],
     [GoodEntry EXCEPT !.bot = NullValue],
     [GoodEntry EXCEPT !.top = ListValue],
     [GoodEntry EXCEPT !.kind = "str"],
     [GoodEntry EXCEPT !.kind = "null"]}

\* validate_dictionary lines 67-69: any dictionary over the pool, any set of
\* referenced names, and a reference table that is empty or holds P1
InitVal ==
    /\ MergeIdle
    /\ ConfIdle
    /\ MapIdle
    /\ PipeIdle
    /\ \E keys \in SUBSET FormationPool : json_data \in [keys -> Entries]
    /\ datatest_formations \in SUBSET FormationPool
    /\ stratigraphic_formations \in {{}, {P1}}
    /\ errors = {}
    /\ vpc = "start"

NextVal ==
    \/ ReturnEmptyInput
    \/ CheckCompleteness
    \/ CheckParents
    \/ CheckParentsRaises
    \/ CheckRanges
    \/ CheckRangesRaises

SpecVal == InitVal /\ [][NextVal]_vars

\* --------------------------------------------- properties of the validator
\* the three checks of the specification, stated on the inputs
NameComplete(f) == f \in DOMAIN json_data

ParentConsistent(f) ==
    /\ json_data[f].kind = "map"
    /\ "parent" \in json_data[f].has
    /\ json_data[f].parent \in stratigraphic_formations

PositionValid(f, field) ==
    LET value == IF field = "top" THEN json_data[f].top ELSE json_data[f].bot
    IN  /\ json_data[f].kind = "map"
        /\ field \in json_data[f].has
        /\ value.t = "numstr"
        /\ value.q \in 0..4

AllChecksHold ==
    \A f \in datatest_formations :
        /\ NameComplete(f)
        /\ ParentConsistent(f)
        /\ PositionValid(f, "top")
        /\ PositionValid(f, "bot")

\* the call is over / it returned an empty list
ValFinished == vpc \in {"returned", "raised"}
ValPassed == vpc = "returned" /\ errors = {}

\* C15 as stated: the returned list is empty exactly when the three checks
\* hold, also for an empty set of referenced names
C15_Original == ValFinished => (ValPassed <=> AllChecksHold)

\* C15: the returned list is empty exactly when the dictionary and the set of
\* referenced names are non-empty and the three checks hold
C15_PassIffChecks ==
    ValFinished =>
        (ValPassed <=> /\ DOMAIN json_data # {}
                       /\ datatest_formations # {}
                       /\ AllChecksHold)

\* a pass with two referenced names, while an entry nobody references is
\* defective
C15_Witness ==
    /\ ValPassed
    /\ Cardinality(datatest_formations) = 2
    /\ \E f \in DOMAIN json_data :
           f \notin datatest_formations /\ json_data[f] # GoodEntry

\* the completeness check has been run
CompletenessRan ==
    \/ vpc \in {"parents", "ranges"}
    \/ /\ vpc = "returned"
       /\ DOMAIN json_data # {}
       /\ datatest_formations # {}
       /\ stratigraphic_formations # {}

MissingNames == {f \in datatest_formations : f \notin DOMAIN json_data}

ReportedCompleteness == {e \in errors : e.check = "completeness"}

\* C16 as stated: every missing name has a completeness error of its own
C16_Original ==
    CompletenessRan =>
        /\ Cardinality(ReportedCompleteness) = Cardinality(MissingNames)
        /\ \A f \in MissingNames :
               \E e \in ReportedCompleteness : e.names = {f}

\* C16: when names are missing there is exactly one completeness error and it
\* names every missing name; when none is missing there is none
C16_OneCompletenessError ==
    CompletenessRan =>
        /\ MissingNames = {} => ReportedCompleteness = {}
        /\ MissingNames # {} =>
               /\ Cardinality(ReportedCompleteness) = 1
               /\ \A e \in ReportedCompleteness : e.names = MissingNames

\* a returned list whose single completeness error names two missing names
C16_Witness ==
    /\ vpc = "returned"
    /\ Cardinality(MissingNames) = 2
    /\ Cardinality(ReportedCompleteness) = 1

\* the errors the three checks owe for formation f are in the list
CompletenessReported(f) ==
    ~NameComplete(f) =>
        \E e \in errors : e.check = "completeness" /\ f \in e.names

ParentReported(f) ==
    (NameComplete(f) /\ ~ParentConsistent(f)) =>
        \E e \in errors :
            /\ e.check \in {"parent_field_missing", "parent_unknown"}
            /\ e.names = {f}

PositionReported(f, field) ==
    (NameComplete(f) /\ ~PositionValid(f, field)) =>
        \E e \in errors :
            /\ e.check \in {"field_missing", "not_a_number", "out_of_range"}
            /\ e.names = {f}
            /\ e.field = field

AllReported ==
    \A f \in datatest_formations :
        /\ CompletenessReported(f)
        /\ ParentReported(f)
        /\ PositionReported(f, "top")
        /\ PositionReported(f, "bot")

\* C17 as stated: every returned list holds the errors of all three checks,
\* also when the dictionary is empty
C17_Original == vpc = "returned" => AllReported

SomeInputEmpty ==
    \/ DOMAIN json_data = {}
    \/ datatest_formations = {}
    \/ stratigraphic_formations = {}

\* C17: a returned list holds the errors of all three checks when the
\* dictionary, the referenced names and the reference names are all
\* non-empty, and is one error about the empty input otherwise
C17_AllChecksRun ==
    vpc = "returned" =>
        IF SomeInputEmpty
        THEN /\ Cardinality(errors) = 1
             /\ \A e \in errors :
                    e.check \in {"empty_dictionary", "empty_datatest",
                                 "empty_stratigraphic"}
        ELSE AllReported

\* one returned list with a missing name, a wrong parent on another entry
\* and an out-of-range position on a third
C17_Witness ==
    /\ vpc = "returned"
    /\ \E f \in datatest_formations, g \in datatest_formations,
          h \in datatest_formations :
           /\ ~NameComplete(f)
           /\ NameComplete(g)
           /\ json_data[g] = [GoodEntry EXCEPT !.parent = <<"Z">>]
           /\ NameComplete(h)
           /\ json_data[h] = [GoodEntry EXCEPT !.top = Num(5)]
           /\ Error("completeness", {f}, "") \in errors
           /\ Error("parent_unknown", {g}, "parent") \in errors
           /\ Error("out_of_range", {h}, "top") \in errors

\* C18 as stated: validate_dictionary never raises, whatever the dictionary
\* holds
C18_Original == vpc # "raised"

\* ======================================================= analysis pipeline
\* stratigraphic-classification/scripts/complete_analysis.py,
\* StratigraphicAnalysisPipeline.run_complete_analysis.  The stages are the
\* calls of lines 82, 89, 96 and 102; what decides each call's result is part
\* of the run's input.

\* drilling rows of one pipeline run
MaxPipeRows == 3

\* the files of a run
ProcessedFile == "temp_processed_data.csv"
ConfidenceFile == "temp_confidence_data.csv"
OutputFile == "CCQ_classification.csv"

\* what a run is given: the number of drilling rows and the row (0: none)
\* whose depth does not parse; what check_dictionary does (it passes, prints
\* errors, fails to load a file, or raises); whether the reference table has
\* the category column load_categories reads; whether merge_results can read
\* and write its files; and the save_intermediate argument
PipelineInputs ==
    {[rows |-> n, bad_row |-> b, validation |-> v, categories_ok |-> c,
      merge_ok |-> m, save_intermediate |-> s] :
        n \in 0..MaxPipeRows, b \in 0..MaxPipeRows,
        v \in {"pass", "errors", "load_failed", "raises"},
        c \in BOOLEAN, m \in BOOLEAN, s \in BOOLEAN}

\* an event of the log
Event(stage, what) == [stage |-> stage, what |-> what]

\* lines 82-84: check_dictionary returns False
ValidateContinues ==
    /\ ppc = "validate"
    /\ run_input.validation \in {"errors", "load_failed"}
    /\ stage_log' = stage_log \o <<Event("validate", "fail"),
                                   Event("map", "start")>>
    /\ ppc' = "map"
    /\ UNCHANGED <<run_input, files, mapped_count, scored_count, mergeVars,
                   confVars, mapVars, valVars>>
ValidateFails ==
    /\ ppc = "validate"
    /\ run_input.validation \in {"errors", "load_failed"}
    /\ stage_log' = Append(stage_log, Event("validate", "fail"))
    /\ ppc' = "aborted"
    /\ UNCHANGED <<run_input, files, mapped_count, scored_count, mergeVars,
                   confVars, mapVars, valVars>>

\* line 82: validate_dictionary raises and nothing catches it
ValidateRaises ==
    /\ ppc = "validate"
    /\ run_input.validation = "raises"
    /\ stage_log' = Append(stage_log, Event("validate", "fail"))
    /\ ppc' = "raised"
    /\ UNCHANGED <<run_input, files, mapped_count, scored_count, mergeVars,
                   confVars, mapVars, valVars>>

\* lines 82-89: check_dictionary returns True, process_drilling_data is called
ValidatePasses ==
    /\ ppc = "validate"
    /\ run_input.validation = "pass"
    /\ stage_log' = stage_log \o <<Event("validate", "ok"),
                                   Event("map", "start")>>
    /\ ppc' = "map"
    /\ UNCHANGED <<run_input, files, mapped_count, scored_count, mergeVars,
                   confVars, mapVars, valVars>>

\* process_drilling_data: one row of the loop
MapRecord ==
    /\ ppc = "map"
    /\ mapped_count < run_input.rows
    /\ mapped_count + 1 # run_input.bad_row
    /\ mapped_count' = mapped_count + 1
    /\ UNCHANGED <<run_input, files, scored_count, stage_log, ppc, mergeVars,
                   confVars, mapVars, valVars>>

\* process_drilling_data: a row raises, the stage returns False (lines 89-91)
MapRecordFails ==
    /\ ppc = "map"
    /\ mapped_count < run_input.rows
    /\ mapped_count + 1 = run_input.bad_row
    /\ stage_log' = Append(stage_log, Event("map", "fail"))
    /\ ppc' = "aborted"
    /\ UNCHANGED <<run_input, files, mapped_count, scored_count, mergeVars,
                   confVars, mapVars, valVars>>

\* process_drilling_data writes its output and returns True;
\* calculate_confidence is called (lines 89-96)
MapWrite ==
    /\ ppc = "map"
    /\ mapped_count = run_input.rows
    /\ files' = files \cup {ProcessedFile}
    /\ stage_log' = stage_log \o <<Event("map", "ok"),
                                   Event("score", "start")>>
    /\ ppc' = "score"
    /\ UNCHANGED <<run_input, mapped_count, scored_count, mergeVars, confVars,
                   mapVars, valVars>>

\* calculate_confidence: load_categories fails, the stage returns False
\* (analyze_confidence.py lines 47-54, complete_analysis.py lines 96-98)
ScoreLoadFails ==
    /\ ppc = "score"
    /\ ~run_input.categories_ok
    /\ stage_log' = Append(stage_log, Event("score", "fail"))
    /\ ppc' = "aborted"
    /\ UNCHANGED <<run_input, files, mapped_count, scored_count, mergeVars,
                   confVars, mapVars, valVars>>

\* calculate_confidence: one row of the processed file
ScoreRecord ==
    /\ ppc = "score"
    /\ run_input.categories_ok
    /\ scored_count < mapped_count
    /\ scored_count' = scored_count + 1
    /\ UNCHANGED <<run_input, files, mapped_count, stage_log, ppc, mergeVars,
                   confVars, mapVars, valVars>>

\* calculate_confidence writes its output and returns True; merge_results is
\* called (lines 96-102)
ScoreWrite ==
    /\ ppc = "score"
    /\ run_input.categories_ok
    /\ scored_count = mapped_count
    /\ files' = files \cup {ConfidenceFile}
    /\ stage_log' = stage_log \o <<Event("score", "ok"),
                                   Event("merge", "start")>>
    /\ ppc' = "merge"
    /\ UNCHANGED <<run_input, mapped_count, scored_count, mergeVars, confVars,
                   mapVars, valVars>>

\* merge_results returns False (lines 66-68 and 102-104)
MergeFails ==
    /\ ppc = "merge"
    /\ ~run_input.merge_ok
    /\ stage_log' = Append(stage_log, Event("merge", "fail"))
    /\ ppc' = "aborted"
    /\ UNCHANGED <<run_input, files, mapped_count, scored_count, mergeVars,
                   confVars, mapVars, valVars>>

\* merge_results writes the final file and returns True (lines 57-64)
MergeWrite ==
    /\ ppc = "merge"
    /\ run_input.merge_ok
    /\ files' = files \cup {OutputFile}
    /\ stage_log' = Append(stage_log, Event("merge", "ok"))
    /\ ppc' = "cleanup"
    /\ UNCHANGED <<run_input, mapped_count, scored_count, mergeVars, confVars,
                   mapVars, valVars>>

\* lines 107-123
CleanUp ==
    /\ ppc = "cleanup"
    /\ files' = IF run_input.save_intermediate THEN files
                ELSE files \ {ProcessedFile, ConfidenceFile}
    /\ ppc' = "done"
    /\ UNCHANGED <<run_input, mapped_count, scored_count, stage_log, mergeVars,
                   confVars, mapVars, valVars>>

\* run_complete_analysis lines 70-82: nothing written, check_dictionary called
InitPipe ==
    /\ MergeIdle
    /\ ConfIdle
    /\ MapIdle
    /\ ValIdle
    /\ run_input \in PipelineInputs
    /\ run_input.bad_row <= run_input.rows
    /\ files = {}
    /\ mapped_count = 0
    /\ scored_count = 0
    /\ stage_log = <<Event("validate", "start")>>
    /\ ppc = "validate"

NextPipe ==
    \/ ValidateFails
    \/ ValidateRaises
    \/ ValidatePasses
    \/ MapRecord
    \/ MapRecordFails
    \/ MapWrite
    \/ ScoreLoadFails
    \/ ScoreRecord
    \/ ScoreWrite
    \/ MergeFails
    \/ MergeWrite
    \/ CleanUp

SpecPipe == InitPipe /\ [][NextPipe]_vars

\* --------------------------------------------- properties of the pipeline
\* the stages in the order of the claim
StageOrder == <<"validate", "map", "score", "merge">>

StageNo(stage) == CHOOSE k \in 1..Len(StageOrder) : StageOrder[k] = stage

\* C19: the log of a run starts with the start of validation; an event that
\* follows a start is the end of the same stage; an event that follows a
\* successful end is the start of the next stage in the order validation,
\* mapping, confidence scoring, merge-back; nothing follows a failed end; and
\* a record is mapped only in a run whose validation passed, and scored only
\* once every record is mapped and the mapping stage has returned success;
\* the file a stage reads is written before the stage starts
C19_StagesInOrder ==
    /\ stage_log[1] = Event("validate", "start")
    /\ \A k \in 1..(Len(stage_log) - 1) :
           LET a == stage_log[k]
               b == stage_log[k + 1]
           IN  /\ a.what = "start" =>
                      b.stage = a.stage /\ b.what \in {"ok", "fail"}
               /\ a.what = "ok" =>
                      /\ b.what = "start"
                      /\ StageNo(b.stage) = StageNo(a.stage) + 1
               /\ a.what # "fail"
    /\ mapped_count > 0 => run_input.validation = "pass"
    /\ scored_count > 0 =>
           /\ run_input.validation = "pass"
           /\ mapped_count = run_input.rows
           /\ \E k \in 1..Len(stage_log) : stage_log[k] = Event("map", "ok")
    /\ ppc = "score" => ProcessedFile \in files
    /\ ppc = "merge" => ConfidenceFile \in files

\* a completed run of two or more records, all mapped and all scored, with
\* the four stages in the log
C19_Witness ==
    /\ ppc = "done"
    /\ run_input.rows >= 2
    /\ mapped_count = run_input.rows
    /\ scored_count = run_input.rows
    /\ Len(stage_log) = 8
    /\ stage_log[8] = Event("merge", "ok")

\* C20 as stated: when the run has stopped on a fatal error, no file written
\* by the run exists, neither the final file nor an intermediate one
C20_Original == ppc \in {"aborted", "raised"} => files = {}

\* the mapping stage is over
MapFinished == mpc \in {"done", "failed"}

\* drilling row k has a depth field that float() rejects
RowLevelError(k) == ~input_csv[k].start.ok \/ ~input_csv[k].end.ok

\* C21 as stated: when a drilling row has a row-level error, the stage still
\* ends with every other row in its output file
C21_Original ==
    (MapFinished /\ \E k \in 1..Len(input_csv) : RowLevelError(k)) =>
        \A k \in 1..Len(input_csv) :
            ~RowLevelError(k) =>
                /\ output_csv.written
                /\ \E j \in 1..Len(output_csv.rows) :
                       output_csv.rows[j].xuhao = input_csv[k].xuhao

\* the values a mapped depth can take: undefined, a depth of the grid, or a
\* boundary of the loaded reference table
MappedDepthValues ==
    {None} \cup {Value(d) : d \in DepthGrid}
           \cup {Value(formation_depths[j].top) : j \in 1..Len(formation_depths)}
           \cup {Value(formation_depths[j].bottom) :
                     j \in 1..Len(formation_depths)}

\* C26 as stated: some run has both boundaries labelled 'high' and both
\* labelled 'low', so that both cross-boundary corrections apply to it
C26_Original ==
    \E start_depth \in DepthGrid, end_depth \in DepthGrid :
        \E st \in MappedDepthValues, sb \in MappedDepthValues :
            \E et \in MappedDepthValues, eb \in MappedDepthValues :
                LET s == check_depth_range(start_depth, st, sb)
                    e == check_depth_range(end_depth, et, eb)
                IN  /\ s = "high" /\ e = "high"
                    /\ s = "low" /\ e = "low"

\* C26: the two cross-boundary corrections are evaluated independently, each
\* on its own condition (the adjusted start is the midpoint exactly for a
\* both-'high' row, the adjusted end is the midpoint exactly for a both-'low'
\* row, and the other adjusted depth of such a row is the per-boundary one),
\* and no row gets both corrections, since the start label cannot be 'high'
\* and 'low' at once
C26_IndependentExclusive ==
    \A k \in 1..Len(processed_rows) :
        LET o == processed_rows[k]
        IN  /\ ~(BothHigh(o) /\ BothLow(o))
            /\ BothHigh(o) =>
                   /\ IsMidpoint(o.adjusted_start, o.start_top_mapped.v,
                                 o.start_bottom_mapped.v)
                   /\ o.adjusted_end = Max(o.end_top_mapped.v,
                                           o.end_bottom_mapped.v)
            /\ BothLow(o) =>
                   /\ IsMidpoint(o.adjusted_end, o.end_top_mapped.v,
                                 o.end_bottom_mapped.v)
                   /\ o.adjusted_start = Min(o.start_top_mapped.v,
                                             o.start_bottom_mapped.v)
            /\ (o.end_in_range = "low" /\ o.start_in_range # "low") =>
                   o.adjusted_end = Min(o.end_top_mapped.v,
                                        o.end_bottom_mapped.v)
            /\ (o.start_in_range = "high" /\ o.end_in_range # "high") =>
                   o.adjusted_start = Max(o.start_top_mapped.v,
                                          o.start_bottom_mapped.v)

\* a written row with both boundaries 'low' whose adjusted end is the
\* midpoint, strictly between the mapped depths of the end formation, and
\* whose adjusted start is the smaller mapped depth of the start formation
C26_Witness ==
    /\ mpc = "done"
    /\ \E k \in 1..Len(output_csv.rows) :
           LET o == output_csv.rows[k]
           IN  /\ BothLow(o)
               /\ o.adjusted_end
                      < Max(o.end_top_mapped.v, o.end_bottom_mapped.v)
               /\ o.adjusted_end
                      > Min(o.end_top_mapped.v, o.end_bottom_mapped.v)
               /\ o.adjusted_start
                      = Min(o.start_top_mapped.v, o.start_bottom_mapped.v)

\* ------------------------------------- the validator as gate of the mapping
RECURSIVE StripLeft(_)
\* s.lstrip() on blanks
StripLeft(s) ==
    IF s # <<>> /\ s[1] = " " THEN StripLeft(Tail(s)) ELSE s

RECURSIVE StripRight(_)
\* s.rstrip() on blanks
StripRight(s) ==
    IF s # <<>> /\ s[Len(s)] = " "
    THEN StripRight(SubSeq(s, 1, Len(s) - 1))
    ELSE s

\* s.strip()
strip(s) == StripRight(StripLeft(s))

\* load_datatest_formations: the stripped formation names of the drilling rows
LoadedDatatestFormations(rows) ==
    {strip(rows[k].sform) : k \in 1..Len(rows)}
        \cup {strip(rows[k].eform) : k \in 1..Len(rows)}

\* load_stratigraphic_formations: the stripped names of the reference table
LoadedStratigraphicFormations(table) ==
    {strip(table[k].name) : k \in 1..Len(table)}

\* a cell holding the name followed by a blank
Padded(name) == name \o <<" ">>

\* the dictionaries of the gate inputs: empty, FormA with an entry of the
\* validator's pool, or that and FormB with an entry passing every check
GateDicts ==
    {<<>>} \cup {(FormA :> e) : e \in Entries}
           \cup {(FormA :> e) @@ (FormB :> GoodEntry) : e \in Entries}

\* the reference tables of the gate inputs: empty, or one formation from
\* 1000 m to 1200 m named P1, P1 followed by a blank, or Q
GateTables ==
    {<<>>} \cup {<<[name |-> n, top |-> 100000, bottom |-> 120000]>> :
                    n \in {P1, Padded(P1), <<"Q">>}}

\* the three files given to both the validator and the mapping stage: no
\* drilling row or one, whose formation cells may carry a trailing blank
GateInput ==
    \E dict \in GateDicts, table \in GateTables, n \in 0..1,
       sf \in {FormA, Padded(FormA)}, ef \in {FormA, Padded(FormA), FormB},
       s \in DepthGrid, e \in DepthGrid, bad \in 0..1 :
        /\ stratigraphic_dict = dict
        /\ json_data = dict
        /\ formation_depths = table
        /\ stratigraphic_formations = LoadedStratigraphicFormations(table)
        /\ input_csv = DrillRows(n, s, e, sf, ef, bad)
        /\ datatest_formations = LoadedDatatestFormations(input_csv)

\* the validator and the mapping stage started on the same three files
InitGate ==
    /\ MergeIdle
    /\ ConfIdle
    /\ PipeIdle
    /\ GateInput
    /\ errors = {}
    /\ vpc = "start"
    /\ processed_rows = <<>>
    /\ output_csv = NoFile
    /\ row_no = 0
    /\ mpc = "rows"

NextGate ==
    \/ NextVal
    \/ NextMap

SpecGate == InitGate /\ [][NextGate]_vars

\* C30 as stated: when validate_dictionary returns no error for the three
\* files, every row the mapping stage builds from them has its four mapped
\* depths defined and neither boundary labelled 'indeterminate'
C30_Original ==
    ValPassed =>
        \A k \in 1..Len(processed_rows) :
            LET o == processed_rows[k]
            IN  /\ BothDefined(o.start_top_mapped, o.start_bottom_mapped)
                /\ BothDefined(o.end_top_mapped, o.end_bottom_mapped)
                /\ o.start_in_range # "undetermined"
                /\ o.end_in_range # "undetermined"

\* ------------------------------ further properties of the consolidation pass
\* C22 as stated: no exception leaves the pass, also when a footage cell of
\* the table is no number
C22_Original ==
    (\E k \in 1..Len(df) : df[k].malformed) => pc # "raised"

\* the step applies the overwrite next in the list to the row the scan
\* recorded, before any insertion, and changes no other row
OverwriteLands ==
    LET mod == rows_to_modify[mi + 1]
    IN  /\ Len(result_df) = Len(df)
        /\ Len(result_df') = Len(df)
        /\ result_df[mod.idx + 1].xuhao = Orig(mod.idx).xuhao
        /\ \A k \in 1..Len(df) : k # mod.idx + 1 => result_df'[k] = result_df[k]
        /\ IF mod.kind = "depth"
           THEN result_df'[mod.idx + 1].footage = mod.val
           ELSE result_df'[mod.idx + 1].hit = mod.val

\* the step inserts the synthesized record with the largest anchor left,
\* directly behind the input row the scan recorded as its anchor, after the
\* last overwrite
InsertionLands ==
    LET x == Head(sorted_new_rows)
    IN  /\ mi = Len(rows_to_modify)
        /\ \A j \in 2..Len(sorted_new_rows) : sorted_new_rows[j].pos < x.pos
        /\ Len(result_df') = Len(result_df) + 1
        /\ result_df'[x.pos + 2] = x.row
        /\ result_df'[x.pos + 1].xuhao = Orig(x.pos).xuhao
        /\ \A k \in 1..(x.pos + 1) : result_df'[k] = result_df[k]

\* C23: the scan changes no row (the table it reads is the input); then every
\* step that changes the table before the insertions is one scheduled
\* overwrite landing on the row recorded during the scan; and every insertion
\* comes after the last overwrite, in descending anchor order, directly
\* behind the row recorded as its anchor
C23_TwoPhases ==
    [][/\ pc = "scan" => (result_df = df /\ result_df' = df)
       /\ (pc = "modify" /\ result_df' # result_df) => OverwriteLands
       /\ (pc = "insert" /\ result_df' # result_df) => InsertionLands
       /\ (pc \in {"done", "raised"}) => result_df' = result_df]_vars

\* a finished pass that applied overwrites and then inserted two synthesized
\* records
C23_Witness ==
    /\ pc = "done"
    /\ Len(new_rows_to_add) >= 2
    /\ mi = Len(rows_to_modify)
    /\ mi > 0
    /\ Len(result_df) = Len(df) + Len(new_rows_to_add)

\* the condition the claim gives for the warning on the rows s..e
StatedWarningCase(s, e) ==
    /\ depth_continuous(s, e)
    /\ \A k \in s..e : Row(k).maker = Row(s).maker
    /\ \E k \in s..e : Row(k).type # Row(s).type

\* C24 as stated: on a range of length > 1 the warning is surfaced exactly
\* when the range is depth-continuous, of one manufacturer and of differing
\* bit types; such a range is not merged and the scan goes on behind it
C24_Original ==
    [][(/\ pc = "scan" /\ i < NRows
        /\ ~PairCase /\ Row(i).entry >= 1
        /\ sequence_end > sequence_start) =>
           /\ (warnings' # warnings)
                  <=> StatedWarningCase(sequence_start, sequence_end)
           /\ StatedWarningCase(sequence_start, sequence_end) =>
                  /\ merged' = merged
                  /\ new_rows_to_add' = new_rows_to_add
                  /\ pc' = "scan"
                  /\ i' = sequence_end + 1]_vars

\* density and sensor values of the m-th synthesized record are the averages
\* the claim states
DensityAndSensorsAveraged(m) ==
    LET s == merged[m][1]
        e == merged[m][2]
        x == new_rows_to_add[m].row
    IN  /\ x.density = FootageAverage([k \in s..e |-> Orig(k).density], s, e)
        /\ \A c \in 1..Len(SensorColumns) :
               x.sensor[c] =
                   FootageAverage([k \in s..e |-> Orig(k).sensor[c]], s, e)

\* C25 as stated: besides the averages of density and sensors, the mechanical
\* rate of a synthesized record is the average over the non-null rows, and the
\* last row's value when their footages sum to zero, also when every rate of
\* the range is null
C25_Original ==
    \A m \in 1..Len(new_rows_to_add) :
        LET s == merged[m][1]
            e == merged[m][2]
            x == new_rows_to_add[m].row
        IN  /\ DensityAndSensorsAveraged(m)
            /\ x.speed =
                   IF SumOver([k \in s..e |-> NonNullFootage(k)], s, e) > 0
                   THEN NonNullAverage(s, e)
                   ELSE Orig(e).speed

\* C25: in a merged range the synthesized mud density and each of the eight
\* sensor values is the footage-weighted average over all rows, and the last
\* row's value when the total footage is zero; the synthesized mechanical
\* rate is the footage-weighted average over the rows whose rate is not null,
\* with their footage alone as weight total, and when that total is zero it
\* is the last row's rate if that is not null and 0.0 if it is null (so 0.0
\* when every rate of the range is null)
C25_Averages ==
    \A m \in 1..Len(new_rows_to_add) :
        LET s == merged[m][1]
            e == merged[m][2]
            x == new_rows_to_add[m].row
        IN  /\ DensityAndSensorsAveraged(m)
            /\ x.speed =
                   IF SumOver([k \in s..e |-> NonNullFootage(k)], s, e) > 0
                   THEN NonNullAverage(s, e)
                   ELSE IF Orig(e).speed.null THEN Speed(0)
                   ELSE Orig(e).speed

\* a finished pass with a merged range that holds a row with a null rate and
\* positive footage next to a row with a rate and positive footage, whose
\* synthesized rate differs from the average over all footages
C25_Witness ==
    /\ pc = "done"
    /\ \E m \in 1..Len(merged) :
           LET s == merged[m][1]
               e == merged[m][2]
           IN  /\ \E k \in s..e : Orig(k).speed.null /\ Orig(k).footage > 0
               /\ \E k \in s..e : ~Orig(k).speed.null /\ Orig(k).footage > 0
               /\ new_rows_to_add[m].row.speed = NonNullAverage(s, e)
               /\ \E j \in 1..Len(result_df) :
                      result_df[j] = new_rows_to_add[m].row

\* C27: the merged ranges are pairwise disjoint, so no input row lies in two
\* of them and none is merged twice; no two synthesized records share an
\* anchor; and there is one synthesized record per merged range, anchored at
\* the range's end, scheduled during the scan and present in the output
C27_DisjointRanges ==
    /\ \A a \in 1..Len(merged) : \A b \in 1..Len(merged) :
           a # b => (merged[a][2] < merged[b][1] \/ merged[b][2] < merged[a][1])
    /\ Len(new_rows_to_add) = Len(merged)
    /\ \A a \in 1..Len(merged) : new_rows_to_add[a].pos = merged[a][2]
    /\ \A a \in 1..Len(merged) : \A b \in 1..Len(merged) :
           a # b => new_rows_to_add[a].pos # new_rows_to_add[b].pos
    /\ pc = "done" =>
           Cardinality({j \in 1..Len(result_df) : result_df[j].xuhao.syn})
               = Len(merged)

\* a finished pass that jumped over a [1,1] pair, merged a range starting at
\* the pair's second row by the backward search, and merged a second range
C27_Witness ==
    /\ pc = "done"
    /\ Len(merged) >= 2
    /\ Orig(0).entry = 1 /\ Orig(1).entry = 1
    /\ merged[1][1] = 1
    /\ rows_to_modify[2] = [kind |-> "plain", idx |-> 1, val |-> Scale]

\* C28: every iteration of the scan moves the cursor forward, by 2 over a
\* [1,1] pair, behind the range's end for a range of length > 1 whether or
\* not it is merged, and by 1 otherwise, never beyond the row count; so the
\* scan ends after at most as many iterations as the table has rows
C28_CursorAdvances ==
    [][(pc = "scan" /\ pc' = "scan") =>
           /\ i < NRows
           /\ i' > i
           /\ i' <= NRows
           /\ i' = IF PairCase THEN i + 2
                   ELSE IF Row(i).entry >= 1 /\ sequence_end > sequence_start
                   THEN sequence_end + 1
                   ELSE i + 1]_vars

\* a scan that has ended after jumping over a [1,1] pair and then moving the
\* cursor behind a range that the backward search started at the pair's second
\* row, before the cursor, the range not being merged
C28_Witness ==
    /\ pc = "modify"
    /\ i = NRows
    /\ merged = <<>>
    /\ \E w \in 1..Len(warnings) :
           warnings[w][1] = 1 /\ warnings[w][2] = NRows - 1
    /\ Orig(0).entry = 1 /\ Orig(1).entry = 1

RECURSIVE ApplyScheduled(_)
\* the input table after the first n scheduled overwrites, in scheduling order
ApplyScheduled(n) ==
    IF n = 0 THEN df ELSE ApplyMod(ApplyScheduled(n - 1), rows_to_modify[n])

\* input row s is the second row of a [1,1] pair the scan marked with 1.0
SecondOfPair(s) ==
    /\ s >= 1
    /\ Orig(s - 1).entry = 1 /\ Orig(s).entry = 1
    /\ \E a \in 1..(Len(rows_to_modify) - 1) :
           /\ rows_to_modify[a] = [kind |-> "plain", idx |-> s - 1, val |-> Scale]
           /\ rows_to_modify[a + 1] = [kind |-> "plain", idx |-> s, val |-> Scale]

\* C29: the overwrites are applied in the order they were scheduled, and when
\* the pass is done a row that is the second of a [1,1] pair and the first
\* of a merged range has the merged total as footage and its input footage
\* divided by that total as hit-rate (1.0 for a total of zero), while the
\* first row of the pair keeps its footage and hit-rate 1.0
C29_PairThenRange ==
    /\ pc = "modify" => result_df = ApplyScheduled(mi)
    /\ pc = "done" =>
           \A rg \in MergedRanges :
               SecondOfPair(rg[1]) =>
                   LET total == InputFootage(rg[1], rg[2])
                   IN  /\ OutRow(rg[1]).footage = total
                       /\ OutRow(rg[1]).hit =
                              IF total # 0
                              THEN Round6Div(Orig(rg[1]).footage, total)
                              ELSE Scale
                       /\ Untouched(rg[1] - 1)

\* a finished pass over entry counts 1,1,2 whose second row ends with a
\* hit-rate below 1.0 and a larger footage than it came with
C29_Witness ==
    /\ pc = "done"
    /\ Len(df) = 3
    /\ Orig(0).entry = 1 /\ Orig(1).entry = 1 /\ Orig(2).entry = 2
    /\ MergedRanges = {<<1, 2>>}
    /\ SecondOfPair(1)
    /\ OutRow(1).hit < Scale
    /\ OutRow(1).footage > Orig(1).footage
    /\ OutRow(0).hit = Scale

====
